---- MODULE Spec2Model ----
(***************************************************************************)
(* Purchase lifecycle and subscription provisioning of the Telegram shop   *)
(* bot: PaymentService (CreatePurchase, ProcessPurchaseById,               *)
(* CancelPayment), the invoice pollers started by setupInvoiceChecker, the  *)
(* expiry rule of the remnawave client and CreateIncome of the moynalog    *)
(* (tax receipt) client.                                                   *)
(*                                                                         *)
(* Time is counted in whole days.  An expiry of 0 is the zero time.Time    *)
(* (no account on the panel, or a NULL expire_at on the customer row).     *)
(***************************************************************************)
EXTENDS Integers, Sequences, FiniteSets, TLC

\* ---------------------------------------------------------------- bounds
MaxPurchases == 2
MaxMonths == 1
MaxCalls == 2
MaxFailures == 1
NumThreads == 2
Now == 100
ReferralDays == 7
MaxRenewMonths == 3
ExpireSpan == 40
MaxIncomeCalls == 5
MaxDecreaseDays == 30
MaxId == 12
NumUsers == 2
NumHandlers == 2
MaxStarts == 3
NumCallers == 3
MaxAuthCalls == 4
NumWorkers == 2
MaxTexts == 2

\* ------------------------------------------------------ program constants
DaysPerMonth == 30
maxRetries == 2

Purchases == 1..MaxPurchases
Threads == 1..NumThreads
Buyer == "E"
Referrer == "R"
Customers == {Buyer, Referrer}

Users == 1..NumUsers
Handlers == 1..NumHandlers
Callers == 1..NumCallers
Workers == 1..NumWorkers
Texts == 1..MaxTexts

InvoiceTypes == {"crypto", "yookasa", "telegram", "tribute"}
PolledTypes == {"crypto", "yookasa"}
PushTypes == {"telegram", "tribute"}

\* The configurations explored: one polled and one push provider switched on.
Configurations == {{"yookasa", "telegram"}, {"crypto", "tribute"}}

VARIABLES
    status,      \* purchase.status: "none" (no row), "new", "pending", "paid", "cancel"
    ptype,       \* purchase.invoice_type
    month,       \* purchase.month
    inv,         \* the provider's invoice: "none", "active", "paid", "cancelled"
    panel,       \* expiry of the customer's account on the panel, 0 = no account
    custExp,     \* customer.expire_at as stored by UpdateFields, 0 = NULL
    enabled,     \* providers switched on in the configuration
    bonus,       \* referral row of the buyer: "none", "pending" (bonus_granted = false), "granted"
    pc,          \* position of each goroutine
    role,        \* what the goroutine runs: "push", "yk" (YooKassa tick), "cp" (CryptoPay tick),
                 \* "none" when it has ended
    pid,         \* purchaseId argument of the running ProcessPurchaseById; 0 is the
                 \* value a failed strconv.Atoi leaves, no row has it
    queue,       \* purchases (yk) or paid invoices (cp) the tick still has to visit
    cur,         \* existingUser.ExpireAt read by GetUserByTelegramId
    user,        \* ExpireAt of the user returned by CreateOrUpdateUser
    ret,         \* result of the goroutine's last ProcessPurchaseById
    calls,       \* ProcessPurchaseById invocations started
    failures,    \* faults of the outside so far: failed calls, unparsable invoice metadata
    overlap,     \* two ProcessPurchaseById invocations have run at the same time
    provCalls,   \* successful CreateOrUpdateUser calls for the buyer, per purchase
    granted,     \* days by which those calls moved the buyer's expiry, per purchase
    custUpdates, \* successful updates of the buyer's customer row, per purchase
    notified,    \* confirmation messages sent, per purchase
    everPaid,    \* MarkAsPaid has committed the purchase
    bonusCalls,  \* successful CreateOrUpdateUser calls for the referrer
    bonusDays,   \* days by which those calls moved the referrer's expiry
    expireAt,    \* existingUser.ExpireAt handed to getNewExpire, 0 = zero time
    daysIn,      \* days handed to getNewExpire
    newExpire,   \* result of getNewExpire of internal/remnawave/client.go, -1 = not computed
    newExpireOld,\* result of getNewExpire of the older client, -1 = not computed
    token,       \* Client.token: "none" (nil or empty), "rejected" (stored, the service
                 \* answers 401/403 to it), "accepted" (stored and honoured)
    ipc,         \* position of the CreateIncome call
    attempt,     \* loop counter of CreateIncome
    sends,       \* income requests sent by the running CreateIncome call
    reauthCalls, \* Authenticate calls made by its retry loop
    authPosts,   \* of those, the ones that posted credentials and stored a new token
    incomeRet,   \* result of the last CreateIncome call
    incomeCalls, \* CreateIncome calls started
    lastErr,     \* err of the latest sendIncomeRequest of the running call: "none",
                 \* "ok" (nil), "auth", "retryable", "client"
    caller,      \* who asked the remnawave client for an account: "ActivateTrial",
                 \* "ProcessPurchaseById", "none"
    customerId,  \* customer.ID handed to CreateOrUpdateUser
    telegramId,  \* customer.TelegramID handed to CreateOrUpdateUser
    strategy,    \* config.TrafficLimitResetStrategy(), a sequence of characters
    accountExists, \* GetUserByTelegramId finds an account on the panel
    isTrialUser, \* the isTrialUser argument of CreateOrUpdateUserWithStrategyAndTrial
    cpc,         \* position of the CreateOrUpdateUser call
    reqUsername, \* CreateUserRequestDto.Username, a sequence of characters
    reqSquads,   \* configuration the squads of the request are filtered by
    reqTag,      \* configuration the Tag of the request is taken from
    reqStrategy, \* TrafficLimitStrategy of the request
    customers,   \* telegram ids that have a customer row
    edges,       \* referral rows per referee
    hpc,         \* position of each running StartCommandHandler
    hChat,       \* update.Message.Chat.ID of the handler
    hArg,        \* argument of its /start message: "plain", "ref" (ref_<number>),
                 \* "refNotNumber" (ref_ followed by something else)
    hNew,        \* the handler found no customer row and created one
    starts,      \* /start messages received
    authMu,      \* Client.authMu: the caller that holds it, 0 = unlocked
    authInFlight, \* Client.authInFlight
    apc,         \* position of each caller of Authenticate
    aposts,      \* authentication requests sent by the caller's current call
    sawSuccess,  \* while the caller was waiting, another caller's request succeeded
    authCalls,   \* Authenticate calls started
    pendingText, \* broadcastState.pendingText[adminID]: a text, 0 = no entry
    waitingForInput, \* broadcastState.waitingForInput[adminID]: "absent", "true", "false"
    selectedType, \* broadcastState.selectedType[adminID]: a BroadcastType or "absent"
    bpc,         \* position of each bot worker inside BroadcastMessageHandler
    bText,       \* messageText of the worker
    bType,       \* broadcastType the worker read
    texts,       \* texts the admin has sent
    previewType, \* audience named in the confirmation preview of each text
    started,     \* sendBroadcast goroutines started, per text
    audience,    \* broadcastType handed to sendBroadcast, per text
    cancelled    \* texts that were pending when a cancel callback was handled

store == <<status, ptype, month, inv>>
accounts == <<panel, custExp, bonus, enabled>>
locals == <<pc, role, pid, queue, cur, user, ret>>
budget == <<calls, failures>>
ProcessPcs == {"load", "provGet", "provPut", "mark", "custUpd", "notify", "refFind",
               "bonusGet", "bonusPut", "refUpd", "bonusMark"}
history == <<provCalls, granted, custUpdates, notified, everPaid, bonusCalls, bonusDays, overlap>>
expireVars == <<expireAt, daysIn, newExpire, newExpireOld>>
incomeVars == <<token, ipc, attempt, sends, reauthCalls, authPosts, incomeRet, incomeCalls, lastErr>>
clientVars == <<caller, customerId, telegramId, strategy, accountExists, isTrialUser, cpc,
                reqUsername, reqSquads, reqTag, reqStrategy>>
startVars == <<customers, edges, hpc, hChat, hArg, hNew, starts>>
authVars == <<authMu, authInFlight, apc, aposts, sawSuccess, authCalls>>
broadcastVars == <<pendingText, waitingForInput, selectedType, bpc, bText, bType, texts,
                   previewType, started, audience, cancelled>>
aux == <<expireVars, incomeVars, clientVars, startVars, authVars, broadcastVars>>
shop == <<store, accounts, locals, budget, history>>
vars == <<status, ptype, month, inv, panel, custExp, bonus, enabled, pc, role, pid, queue,
          cur, user, ret, calls, failures, provCalls, granted, custUpdates,
          notified, everPaid, bonusCalls, bonusDays, overlap, aux>>

\* ------------------------------------------------------------- helpers

\* getNewExpire(daysToAdd, currentExpire) of internal/remnawave/client.go
getNewExpire(daysToAdd, currentExpire) ==
    IF daysToAdd <= 0 THEN Now + 1
    ELSE IF currentExpire = 0 THEN Now + daysToAdd
    ELSE IF currentExpire < Now THEN Now + daysToAdd
    ELSE currentExpire + daysToAdd

\* CreateOrUpdateUser after GetUserByTelegramId answered: NotFound creates the
\* account with expireAt = now + days, otherwise the account is updated.
NewPanelExpire(days, existing) ==
    IF existing = 0 THEN Now + days ELSE getNewExpire(days, existing)

\* The part of an expiry that is still unused service time.
Base(e) == IF e < Now THEN Now ELSE e

\* Ascending sequence of the members of a set of purchase ids.
RECURSIVE SeqOf(_)
SeqOf(S) ==
    IF S = {} THEN <<>>
    ELSE LET m == CHOOSE x \in S : \A y \in S : x <= y
         IN  <<m>> \o SeqOf(S \ {m})

CanFail == failures < MaxFailures

\* AfterProcess with the tick ended by the return of ProcessPurchaseById.
AfterProcessEndsTick(t) == "idle"

\* Where a goroutine continues when its ProcessPurchaseById returns.
AfterProcess(t) ==
    IF role[t] = "push" \/ queue[t] = <<>> THEN "idle"
    ELSE IF role[t] = "yk" THEN "ykLoop" ELSE "cpLoop"

\* The role of goroutine t once it is at l.
RoleAt(t, l) == [role EXCEPT ![t] = IF l = "idle" THEN "none" ELSE @]

\* ProcessPurchaseById returns r
Return(t, r) ==
    /\ pc' = [pc EXCEPT ![t] = AfterProcess(t)]
    /\ role' = RoleAt(t, AfterProcess(t))
    /\ ret' = [ret EXCEPT ![t] = r]
    /\ cur' = [cur EXCEPT ![t] = 0]
    /\ user' = [user EXCEPT ![t] = 0]

Goto(t, l) ==
    /\ pc' = [pc EXCEPT ![t] = l]
    /\ UNCHANGED <<ret, cur, user, role>>

Fail ==
    /\ CanFail
    /\ failures' = failures + 1

NoFail == UNCHANGED failures

\* Goroutine t enters ProcessPurchaseById.
Enter(t, p) ==
    /\ calls < MaxCalls
    /\ calls' = calls + 1
    /\ pc' = [pc EXCEPT ![t] = "load"]
    /\ pid' = [pid EXCEPT ![t] = p]
    /\ ret' = [ret EXCEPT ![t] = "none"]
    /\ overlap' = (overlap \/ \E u \in Threads \ {t} : pc[u] \in ProcessPcs)
    /\ UNCHANGED <<provCalls, granted, custUpdates, notified, everPaid, bonusCalls, bonusDays>>

\* ------------------------------------------------------------- Init
NoValue == 0 - 1

\* No expiry computation is being followed.
ExpireIdle ==
    /\ expireAt = 0
    /\ daysIn = 0
    /\ newExpire = NoValue
    /\ newExpireOld = NoValue

\* No CreateIncome call is being followed.
IncomeIdle ==
    /\ token = "none"
    /\ ipc = "idle"
    /\ attempt = 0
    /\ sends = 0
    /\ reauthCalls = 0
    /\ authPosts = 0
    /\ incomeRet = "none"
    /\ incomeCalls = 0
    /\ lastErr = "none"

\* No CreateOrUpdateUser request is being followed.
ClientIdle ==
    /\ caller = "none"
    /\ customerId = 1
    /\ telegramId = 1
    /\ strategy = <<>>
    /\ accountExists = FALSE
    /\ isTrialUser = FALSE
    /\ cpc = "idle"
    /\ reqUsername = <<>>
    /\ reqSquads = "none"
    /\ reqTag = "none"
    /\ reqStrategy = "none"

\* No /start message is being followed.
StartIdle ==
    /\ customers = {}
    /\ edges = [u \in Users |-> 0]
    /\ hpc = [h \in Handlers |-> "idle"]
    /\ hChat = [h \in Handlers |-> 1]
    /\ hArg = [h \in Handlers |-> "plain"]
    /\ hNew = [h \in Handlers |-> FALSE]
    /\ starts = 0

\* No Authenticate call is being followed.
AuthIdle ==
    /\ authMu = 0
    /\ authInFlight = FALSE
    /\ apc = [c \in Callers |-> "idle"]
    /\ aposts = [c \in Callers |-> 0]
    /\ sawSuccess = [c \in Callers |-> FALSE]
    /\ authCalls = 0

\* NewBroadcastState: the three maps are empty.
BroadcastIdle ==
    /\ pendingText = 0
    /\ waitingForInput = "absent"
    /\ selectedType = "absent"
    /\ bpc = [w \in Workers |-> "idle"]
    /\ bText = [w \in Workers |-> 0]
    /\ bType = [w \in Workers |-> "absent"]
    /\ texts = 0
    /\ previewType = [x \in Texts |-> "absent"]
    /\ started = [x \in Texts |-> 0]
    /\ audience = [x \in Texts |-> "absent"]
    /\ cancelled = {}

Init ==
    /\ AuthIdle
    /\ BroadcastIdle
    /\ ExpireIdle
    /\ IncomeIdle
    /\ ClientIdle
    /\ StartIdle
    /\ status = [p \in Purchases |-> "none"]
    /\ ptype = [p \in Purchases |-> "crypto"]
    /\ month = [p \in Purchases |-> 1]
    /\ inv = [p \in Purchases |-> "none"]
    /\ enabled \in Configurations
    /\ bonus \in {"none", "pending"}
    /\ panel \in {f \in [Customers -> {0, Now + 10}] : bonus = "none" => f[Referrer] = 0}
    /\ custExp = panel
    /\ pc = [t \in Threads |-> "idle"]
    /\ role = [t \in Threads |-> "none"]
    /\ pid = [t \in Threads |-> 1]
    /\ queue = [t \in Threads |-> <<>>]
    /\ cur = [t \in Threads |-> 0]
    /\ user = [t \in Threads |-> 0]
    /\ ret = [t \in Threads |-> "none"]
    /\ calls = 0
    /\ failures = 0
    /\ provCalls = [p \in Purchases |-> 0]
    /\ granted = [p \in Purchases |-> 0]
    /\ custUpdates = [p \in Purchases |-> 0]
    /\ notified = [p \in Purchases |-> 0]
    /\ everPaid = [p \in Purchases |-> FALSE]
    /\ bonusCalls = 0
    /\ bonusDays = 0
    /\ overlap = FALSE

\* ------------------------------------------------- CreatePurchase

\* purchaseRepository.Create of createCryptoInvoice, createYookasaInvoice and
\* createTelegramInvoice (Status New) and of createTributeInvoice (Status
\* Pending, nothing follows).  Rows get consecutive ids.
CreatePurchaseRow(p, ty, m) ==
    /\ ty \in enabled
    /\ status[p] = "none"
    /\ \A q \in Purchases : q < p => status[q] # "none"
    /\ status' = [status EXCEPT ![p] = IF ty = "tribute" THEN "pending" ELSE "new"]
    /\ ptype' = [ptype EXCEPT ![p] = ty]
    /\ month' = [month EXCEPT ![p] = m]
    /\ inv' = [inv EXCEPT ![p] = IF ty = "tribute" THEN "active" ELSE "creating"]
    /\ UNCHANGED <<accounts, locals, budget, history>>
    /\ UNCHANGED aux

\* The provider's CreateInvoice (CreateInvoiceLink for Telegram) succeeded and
\* UpdateFields stores the invoice id with status Pending.
CreateInvoiceOk(p) ==
    /\ status[p] = "new"
    /\ inv[p] = "creating"
    /\ status' = [status EXCEPT ![p] = "pending"]
    /\ inv' = [inv EXCEPT ![p] = "active"]
    /\ UNCHANGED <<ptype, month, accounts, locals, budget, history>>
    /\ UNCHANGED aux

\* CreateInvoice (crypto, yookasa) or the UpdateFields that follows the
\* creation of the invoice failed: the error is returned and the row stays New.
CreateInvoiceFail(p) ==
    /\ status[p] = "new"
    /\ inv[p] = "creating"
    /\ Fail
    /\ inv' = [inv EXCEPT ![p] = "none"]
    /\ UNCHANGED <<status, ptype, month, accounts, locals, calls, history>>
    /\ UNCHANGED aux

\* createTelegramInvoice when CreateInvoiceLink fails: the error is never
\* looked at and is overwritten by the result of UpdateFields, which sets the
\* row Pending; the call returns an empty link and no error.
CreateInvoiceLinkFailed(p) ==
    /\ status[p] = "new"
    /\ inv[p] = "creating"
    /\ ptype[p] = "telegram"
    /\ Fail
    /\ status' = [status EXCEPT ![p] = "pending"]
    /\ inv' = [inv EXCEPT ![p] = "none"]
    /\ UNCHANGED <<ptype, month, accounts, locals, calls, history>>
    /\ UNCHANGED aux

\* ------------------------------------------------- the payment provider

\* The buyer pays the invoice.
ProviderPay(p) ==
    /\ inv[p] = "active"
    /\ inv' = [inv EXCEPT ![p] = "paid"]
    /\ UNCHANGED <<status, ptype, month, accounts, locals, budget, history>>
    /\ UNCHANGED aux

\* The provider cancels the invoice: an unpaid one expires, a paid one that
\* was held for capture is released.
ProviderCancel(p) ==
    /\ ptype[p] \in PolledTypes
    /\ inv[p] \in {"active", "paid"}
    /\ inv' = [inv EXCEPT ![p] = "cancelled"]
    /\ UNCHANGED <<status, ptype, month, accounts, locals, budget, history>>
    /\ UNCHANGED aux

\* ------------------------------------------------- store operations

\* purchaseRepository.MarkAsPaid: writes status Paid; on a row that is
\* already Paid this changes nothing.
MarkAsPaid(p) ==
    /\ status' = [status EXCEPT ![p] = "paid"]
    /\ everPaid' = [everPaid EXCEPT ![p] = TRUE]

\* referralRepository.MarkBonusGranted: bonus_granted = true.
MarkBonusGranted ==
    bonus' = "granted"

\* PaymentService.CancelPayment: FindById, then UpdateFields(status = Cancel).
CancelPayment(p) ==
    status' = [status EXCEPT ![p] = "cancel"]

\* ------------------------------------------------- ProcessPurchaseById

\* A push confirmation (Telegram successful payment, Tribute webhook) for a
\* paid invoice reaches the bot; the provider may deliver it more than once.
PushConfirm(t, p) ==
    /\ pc[t] = "idle"
    /\ ptype[p] \in PushTypes
    /\ inv[p] = "paid"
    /\ status[p] # "none"
    /\ Enter(t, p)
    /\ role' = [role EXCEPT ![t] = "push"]
    /\ UNCHANGED <<store, accounts, queue, cur, user, failures>>
    /\ UNCHANGED aux

\* ProcessLoad with the nil answer of FindById not checked: the call reports
\* success for an id no row has.
ProcessLoadNotFoundIgnored(t) ==
    /\ pc[t] = "load"
    /\ \/ /\ pid[t] \in Purchases
          /\ NoFail
          /\ Goto(t, "provGet")
       \/ /\ Fail
          /\ Return(t, "errLoad")
       \/ /\ pid[t] \notin Purchases
          /\ NoFail
          /\ Return(t, "ok")
    /\ UNCHANGED <<store, accounts, pid, queue, calls, history>>
    /\ UNCHANGED aux

\* purchaseRepository.FindById, customerRepository.FindById and the deletion
\* of the cached invoice message (its error is only logged).  Either FindById
\* answers nil for an id no row has, and the call returns an error; the
\* second branch is a FindById that fails or finds no customer.
ProcessLoad(t) ==
    /\ pc[t] = "load"
    /\ \/ /\ pid[t] \in Purchases
          /\ NoFail
          /\ Goto(t, "provGet")
       \/ /\ Fail
          /\ Return(t, "errLoad")
       \/ /\ pid[t] \notin Purchases
          /\ NoFail
          /\ Return(t, "errLoad")
    /\ UNCHANGED <<store, accounts, pid, queue, calls, history>>
    /\ UNCHANGED aux

\* CreateOrUpdateUser, first half: GetUserByTelegramId for the buyer.
ProcessProvisionGet(t) ==
    /\ pc[t] = "provGet"
    /\ \/ /\ NoFail
          /\ pc' = [pc EXCEPT ![t] = "provPut"]
          /\ cur' = [cur EXCEPT ![t] = panel[Buyer]]
          /\ UNCHANGED <<ret, user, role>>
       \/ /\ Fail
          /\ Return(t, "errProv")
    /\ UNCHANGED <<store, accounts, pid, queue, calls, history>>
    /\ UNCHANGED aux

\* ProcessProvisionPut with the error of CreateOrUpdateUser dropped: the call
\* goes on to MarkAsPaid although nothing was provisioned.
ProcessProvisionPutErrorDropped(t) ==
    /\ pc[t] = "provPut"
    /\ LET p == pid[t]
           e == NewPanelExpire(month[p] * DaysPerMonth, cur[t])
       IN  \/ /\ ~(cur[t] = 0 /\ panel[Buyer] # 0)
              /\ NoFail
              /\ panel' = [panel EXCEPT ![Buyer] = e]
              /\ provCalls' = [provCalls EXCEPT ![p] = @ + 1]
              /\ granted' = [granted EXCEPT ![p] = @ + (e - Base(panel[Buyer]))]
              /\ pc' = [pc EXCEPT ![t] = "mark"]
              /\ user' = [user EXCEPT ![t] = e]
              /\ UNCHANGED <<ret, cur, role>>
           \/ /\ Fail
              /\ Goto(t, "mark")
              /\ UNCHANGED <<panel, provCalls, granted>>
    /\ UNCHANGED <<store, custExp, bonus, enabled, pid, queue, calls,
                   custUpdates, notified, everPaid, bonusCalls, bonusDays, overlap>>
    /\ UNCHANGED aux

\* CreateOrUpdateUser, second half: createUserWithStrategy when the lookup
\* answered NotFound, updateUserWithStrategy otherwise, for month*30 days.
\* The panel refuses to create a second account under the same username.
ProcessProvisionPut(t) ==
    /\ pc[t] = "provPut"
    /\ LET p == pid[t]
           e == NewPanelExpire(month[p] * DaysPerMonth, cur[t])
       IN  \/ /\ ~(cur[t] = 0 /\ panel[Buyer] # 0)
              /\ NoFail
              /\ panel' = [panel EXCEPT ![Buyer] = e]
              /\ provCalls' = [provCalls EXCEPT ![p] = @ + 1]
              /\ granted' = [granted EXCEPT ![p] = @ + (e - Base(panel[Buyer]))]
              /\ pc' = [pc EXCEPT ![t] = "mark"]
              /\ user' = [user EXCEPT ![t] = e]
              /\ UNCHANGED <<ret, cur, role>>
           \/ /\ cur[t] = 0 /\ panel[Buyer] # 0
              /\ NoFail
              /\ Return(t, "errProv")
              /\ UNCHANGED <<panel, provCalls, granted>>
           \/ /\ Fail
              /\ Return(t, "errProv")
              /\ UNCHANGED <<panel, provCalls, granted>>
    /\ UNCHANGED <<store, custExp, bonus, enabled, pid, queue, calls,
                   custUpdates, notified, everPaid, bonusCalls, bonusDays, overlap>>
    /\ UNCHANGED aux

\* ProcessMarkAsPaid with the error of MarkAsPaid dropped: the call goes on
\* although the purchase was not committed.
ProcessMarkAsPaidErrorDropped(t) ==
    /\ pc[t] = "mark"
    /\ \/ /\ NoFail
          /\ MarkAsPaid(pid[t])
          /\ Goto(t, "custUpd")
       \/ /\ Fail
          /\ Goto(t, "custUpd")
          /\ UNCHANGED <<status, everPaid>>
    /\ UNCHANGED <<ptype, month, inv, accounts, pid, queue, calls,
                   provCalls, granted, custUpdates, notified, bonusCalls, bonusDays, overlap>>
    /\ UNCHANGED aux

\* purchaseRepository.MarkAsPaid(purchase.ID)
ProcessMarkAsPaid(t) ==
    /\ pc[t] = "mark"
    /\ \/ /\ NoFail
          /\ MarkAsPaid(pid[t])
          /\ Goto(t, "custUpd")
       \/ /\ Fail
          /\ Return(t, "errMark")
          /\ UNCHANGED <<status, everPaid>>
    /\ UNCHANGED <<ptype, month, inv, accounts, pid, queue, calls,
                   provCalls, granted, custUpdates, notified, bonusCalls, bonusDays, overlap>>
    /\ UNCHANGED aux

\* customerRepository.UpdateFields(customer.ID, subscription_link, expire_at)
ProcessUpdateCustomer(t) ==
    /\ pc[t] = "custUpd"
    /\ \/ /\ NoFail
          /\ custExp' = [custExp EXCEPT ![Buyer] = user[t]]
          /\ custUpdates' = [custUpdates EXCEPT ![pid[t]] = @ + 1]
          /\ Goto(t, "notify")
       \/ /\ Fail
          /\ Return(t, "errCust")
          /\ UNCHANGED <<custExp, custUpdates>>
    /\ UNCHANGED <<store, panel, bonus, enabled, pid, queue, calls,
                   provCalls, granted, notified, everPaid, bonusCalls, bonusDays, overlap>>
    /\ UNCHANGED aux

\* telegramBot.SendMessage("subscription_activated"); its error is returned.
ProcessNotify(t) ==
    /\ pc[t] = "notify"
    /\ \/ /\ NoFail
          /\ notified' = [notified EXCEPT ![pid[t]] = @ + 1]
          /\ Goto(t, "refFind")
       \/ /\ Fail
          /\ Return(t, "errNotify")
          /\ UNCHANGED notified
    /\ UNCHANGED <<store, accounts, pid, queue, calls,
                   provCalls, granted, custUpdates, everPaid, bonusCalls, bonusDays, overlap>>
    /\ UNCHANGED aux

\* referralRepository.FindByReferee and customerRepository.FindByTelegramId
\* of the referrer.  No row, a row with bonus_granted, and an error of
\* FindByReferee (which returns no row) all end the call with nil.
ProcessFindReferral(t) ==
    /\ pc[t] = "refFind"
    /\ \/ /\ bonus = "pending"
          /\ NoFail
          /\ Goto(t, "bonusGet")
       \/ /\ bonus # "pending"
          /\ NoFail
          /\ Return(t, "ok")
       \/ /\ Fail
          /\ Return(t, "ok")
       \/ /\ bonus = "pending"
          /\ Fail
          /\ Return(t, "errRef")
    /\ UNCHANGED <<store, accounts, pid, queue, calls, history>>
    /\ UNCHANGED aux

\* CreateOrUpdateUser for the referrer, first half.
ProcessBonusGet(t) ==
    /\ pc[t] = "bonusGet"
    /\ \/ /\ NoFail
          /\ pc' = [pc EXCEPT ![t] = "bonusPut"]
          /\ cur' = [cur EXCEPT ![t] = panel[Referrer]]
          /\ UNCHANGED <<ret, user, role>>
       \/ /\ Fail
          /\ Return(t, "errRef")
    /\ UNCHANGED <<store, accounts, pid, queue, calls, history>>
    /\ UNCHANGED aux

\* CreateOrUpdateUser for the referrer, second half, for GetReferralDays days.
ProcessBonusPut(t) ==
    /\ pc[t] = "bonusPut"
    /\ LET e == NewPanelExpire(ReferralDays, cur[t])
       IN  \/ /\ ~(cur[t] = 0 /\ panel[Referrer] # 0)
              /\ NoFail
              /\ panel' = [panel EXCEPT ![Referrer] = e]
              /\ bonusCalls' = bonusCalls + 1
              /\ bonusDays' = bonusDays + (e - Base(panel[Referrer]))
              /\ pc' = [pc EXCEPT ![t] = "refUpd"]
              /\ user' = [user EXCEPT ![t] = e]
              /\ UNCHANGED <<ret, cur, role>>
           \/ /\ cur[t] = 0 /\ panel[Referrer] # 0
              /\ NoFail
              /\ Return(t, "errRef")
              /\ UNCHANGED <<panel, bonusCalls, bonusDays>>
           \/ /\ Fail
              /\ Return(t, "errRef")
              /\ UNCHANGED <<panel, bonusCalls, bonusDays>>
    /\ UNCHANGED <<store, custExp, bonus, enabled, pid, queue, calls,
                   provCalls, granted, custUpdates, notified, everPaid, overlap>>
    /\ UNCHANGED aux

\* customerRepository.UpdateFields(refereeCustomer.ID, ...)
ProcessUpdateReferrer(t) ==
    /\ pc[t] = "refUpd"
    /\ \/ /\ NoFail
          /\ custExp' = [custExp EXCEPT ![Referrer] = user[t]]
          /\ Goto(t, "bonusMark")
       \/ /\ Fail
          /\ Return(t, "errRef")
          /\ UNCHANGED custExp
    /\ UNCHANGED <<store, panel, bonus, enabled, pid, queue, calls, history>>
    /\ UNCHANGED aux

\* referralRepository.MarkBonusGranted, then the message to the referrer
\* (its error is dropped) and return nil.
ProcessMarkBonus(t) ==
    /\ pc[t] = "bonusMark"
    /\ \/ /\ NoFail
          /\ MarkBonusGranted
          /\ Return(t, "ok")
       \/ /\ Fail
          /\ Return(t, "errRef")
          /\ UNCHANGED bonus
    /\ UNCHANGED <<store, panel, custExp, enabled, pid, queue, calls, history>>
    /\ UNCHANGED aux

ProcessPurchaseById(t) ==
    \/ ProcessLoad(t)
    \/ ProcessProvisionGet(t)
    \/ ProcessProvisionPut(t)
    \/ ProcessMarkAsPaid(t)
    \/ ProcessUpdateCustomer(t)
    \/ ProcessNotify(t)
    \/ ProcessFindReferral(t)
    \/ ProcessBonusGet(t)
    \/ ProcessBonusPut(t)
    \/ ProcessUpdateReferrer(t)
    \/ ProcessMarkBonus(t)

\* ------------------------------------------------- invoice pollers

\* TickStart asking the store for the New purchases instead of the Pending ones.
TickStartNewOnly(t, ty) ==
    /\ pc[t] = "idle"
    /\ ty \in enabled
    /\ LET S == {p \in Purchases : ptype[p] = ty /\ status[p] = "new"}
       IN  /\ S # {}
           /\ queue' = [queue EXCEPT ![t] = SeqOf(S)]
    /\ role' = [role EXCEPT ![t] = IF ty = "yookasa" THEN "yk" ELSE "cp"]
    /\ pc' = [pc EXCEPT ![t] = IF ty = "yookasa" THEN "ykLoop" ELSE "cpQuery"]
    /\ ret' = [ret EXCEPT ![t] = "none"]
    /\ UNCHANGED <<store, accounts, pid, cur, user, budget, history>>
    /\ UNCHANGED aux

\* A cron tick of setupInvoiceChecker starts checkYookasaInvoice or
\* checkCryptoPayInvoice: FindByInvoiceTypeAndStatus(type, Pending).  The cron
\* runs every job in a goroutine of its own, so a tick can start while the
\* previous one is still running.  An empty result or an error ends the tick.
TickStart(t, ty) ==
    /\ pc[t] = "idle"
    /\ ty \in enabled
    /\ LET S == {p \in Purchases : ptype[p] = ty /\ status[p] = "pending"}
       IN  /\ S # {}
           /\ queue' = [queue EXCEPT ![t] = SeqOf(S)]
    /\ role' = [role EXCEPT ![t] = IF ty = "yookasa" THEN "yk" ELSE "cp"]
    /\ pc' = [pc EXCEPT ![t] = IF ty = "yookasa" THEN "ykLoop" ELSE "cpQuery"]
    /\ ret' = [ret EXCEPT ![t] = "none"]
    /\ UNCHANGED <<store, accounts, pid, cur, user, budget, history>>
    /\ UNCHANGED aux

\* YookasaVisit with a failed GetPayment treated like a cancelled invoice.
YookasaVisitCancelsOnError(t) ==
    /\ pc[t] = "ykLoop"
    /\ queue[t] # <<>>
    /\ LET p == Head(queue[t])
           rest == Tail(queue[t])
           continue == IF rest = <<>> THEN "idle" ELSE "ykLoop"
       IN  /\ queue' = [queue EXCEPT ![t] = rest]
           /\ \/ /\ Fail
                 /\ CancelPayment(p)
                 /\ pc' = [pc EXCEPT ![t] = continue]
                 /\ role' = RoleAt(t, continue)
                 /\ UNCHANGED <<pid, ret, calls, history>>
              \/ /\ inv[p] = "cancelled"
                 /\ NoFail
                 /\ CancelPayment(p)
                 /\ pc' = [pc EXCEPT ![t] = continue]
                 /\ role' = RoleAt(t, continue)
                 /\ UNCHANGED <<pid, ret, calls, history>>
              \/ /\ inv[p] = "active"
                 /\ NoFail
                 /\ pc' = [pc EXCEPT ![t] = continue]
                 /\ role' = RoleAt(t, continue)
                 /\ UNCHANGED <<status, pid, ret, calls, history>>
              \/ /\ inv[p] = "paid"
                 /\ NoFail
                 /\ Enter(t, p)
                 /\ UNCHANGED <<status, role>>
              \/ /\ inv[p] = "paid"
                 /\ Fail
                 /\ Enter(t, 0)
                 /\ UNCHANGED <<status, role>>
    /\ UNCHANGED <<ptype, month, inv, accounts, cur, user>>
    /\ UNCHANGED aux

\* One iteration of the loop of checkYookasaInvoice: GetPayment, then cancel,
\* skip or process.  The first branch is a failed GetPayment or a failed
\* cancel attempt.  In the last one the purchaseId of the metadata is not a
\* number: the error of strconv.Atoi is logged and ProcessPurchaseById is
\* called with the 0 it left.
YookasaVisit(t) ==
    /\ pc[t] = "ykLoop"
    /\ queue[t] # <<>>
    /\ LET p == Head(queue[t])
           rest == Tail(queue[t])
           continue == IF rest = <<>> THEN "idle" ELSE "ykLoop"
       IN  /\ queue' = [queue EXCEPT ![t] = rest]
           /\ \/ /\ Fail
                 /\ pc' = [pc EXCEPT ![t] = continue]
                 /\ role' = RoleAt(t, continue)
                 /\ UNCHANGED <<status, pid, ret, calls, history>>
              \/ /\ inv[p] = "cancelled"
                 /\ NoFail
                 /\ CancelPayment(p)
                 /\ pc' = [pc EXCEPT ![t] = continue]
                 /\ role' = RoleAt(t, continue)
                 /\ UNCHANGED <<pid, ret, calls, history>>
              \/ /\ inv[p] = "active"
                 /\ NoFail
                 /\ pc' = [pc EXCEPT ![t] = continue]
                 /\ role' = RoleAt(t, continue)
                 /\ UNCHANGED <<status, pid, ret, calls, history>>
              \/ /\ inv[p] = "paid"
                 /\ NoFail
                 /\ Enter(t, p)
                 /\ UNCHANGED <<status, role>>
              \/ /\ inv[p] = "paid"
                 /\ Fail
                 /\ Enter(t, 0)
                 /\ UNCHANGED <<status, role>>
    /\ UNCHANGED <<ptype, month, inv, accounts, cur, user>>
    /\ UNCHANGED aux

\* CryptoPayQuery without the IsPaid filter: every returned invoice is kept.
CryptoPayQueryUnfiltered(t) ==
    /\ pc[t] = "cpQuery"
    /\ \/ /\ NoFail
          /\ pc' = [pc EXCEPT ![t] = "cpLoop"]
          /\ UNCHANGED <<queue, role>>
       \/ /\ Fail
          /\ queue' = [queue EXCEPT ![t] = <<>>]
          /\ pc' = [pc EXCEPT ![t] = "idle"]
          /\ role' = RoleAt(t, "idle")
    /\ UNCHANGED <<store, accounts, pid, cur, user, ret, calls, history>>
    /\ UNCHANGED aux

\* CryptoPayQuery with the error of GetInvoices ignored: the tick goes on with
\* the purchases it loaded.
CryptoPayQueryErrorIgnored(t) ==
    /\ pc[t] = "cpQuery"
    /\ \/ /\ NoFail
          /\ LET paid == {p \in Purchases :
                            /\ \E i \in 1..Len(queue[t]) : queue[t][i] = p
                            /\ inv[p] = "paid"}
             IN  /\ queue' = [queue EXCEPT ![t] = SeqOf(paid)]
                 /\ pc' = [pc EXCEPT ![t] = IF paid = {} THEN "idle" ELSE "cpLoop"]
                 /\ role' = RoleAt(t, IF paid = {} THEN "idle" ELSE "cpLoop")
       \/ /\ Fail
          /\ pc' = [pc EXCEPT ![t] = "cpLoop"]
          /\ UNCHANGED <<queue, role>>
    /\ UNCHANGED <<store, accounts, pid, cur, user, ret, calls, history>>
    /\ UNCHANGED aux

\* checkCryptoPayInvoice: one GetInvoices call for all collected invoice ids;
\* an error ends the tick, otherwise the paid invoices are kept.
CryptoPayQuery(t) ==
    /\ pc[t] = "cpQuery"
    /\ \/ /\ NoFail
          /\ LET paid == {p \in Purchases :
                            /\ \E i \in 1..Len(queue[t]) : queue[t][i] = p
                            /\ inv[p] = "paid"}
             IN  /\ queue' = [queue EXCEPT ![t] = SeqOf(paid)]
                 /\ pc' = [pc EXCEPT ![t] = IF paid = {} THEN "idle" ELSE "cpLoop"]
                 /\ role' = RoleAt(t, IF paid = {} THEN "idle" ELSE "cpLoop")
       \/ /\ Fail
          /\ queue' = [queue EXCEPT ![t] = <<>>]
          /\ pc' = [pc EXCEPT ![t] = "idle"]
          /\ role' = RoleAt(t, "idle")
    /\ UNCHANGED <<store, accounts, pid, cur, user, ret, calls, history>>
    /\ UNCHANGED aux

\* One iteration of the loop over the returned invoices: the purchase id is
\* taken from the payload and ProcessPurchaseById is called.  With an id that
\* is not a number the error of strconv.Atoi is overwritten and the call is
\* made with 0.  With a payload that lacks "=" or "&" the index expression
\* panics; the tick does not go on.
CryptoPayVisit(t) ==
    /\ pc[t] = "cpLoop"
    /\ queue[t] # <<>>
    /\ \/ /\ NoFail
          /\ queue' = [queue EXCEPT ![t] = Tail(queue[t])]
          /\ Enter(t, Head(queue[t]))
          /\ UNCHANGED role
       \/ /\ Fail
          /\ queue' = [queue EXCEPT ![t] = Tail(queue[t])]
          /\ Enter(t, 0)
          /\ UNCHANGED role
       \/ /\ Fail
          /\ queue' = [queue EXCEPT ![t] = <<>>]
          /\ pc' = [pc EXCEPT ![t] = "idle"]
          /\ role' = RoleAt(t, "idle")
          /\ UNCHANGED <<pid, ret, calls, history>>
    /\ UNCHANGED <<store, accounts, cur, user>>
    /\ UNCHANGED aux

\* ------------------------------------------------- specification
Next ==
    \/ \E p \in Purchases, ty \in InvoiceTypes, m \in 1..MaxMonths : CreatePurchaseRow(p, ty, m)
    \/ \E p \in Purchases : CreateInvoiceOk(p)
    \/ \E p \in Purchases : CreateInvoiceFail(p)
    \/ \E p \in Purchases : CreateInvoiceLinkFailed(p)
    \/ \E p \in Purchases : ProviderPay(p)
    \/ \E p \in Purchases : ProviderCancel(p)
    \/ \E t \in Threads, p \in Purchases : PushConfirm(t, p)
    \/ \E t \in Threads : ProcessPurchaseById(t)
    \/ \E t \in Threads, ty \in PolledTypes : TickStart(t, ty)
    \/ \E t \in Threads : YookasaVisit(t)
    \/ \E t \in Threads : CryptoPayQuery(t)
    \/ \E t \in Threads : CryptoPayVisit(t)

Spec == Init /\ [][Next]_vars

TypeOK ==
    /\ status \in [Purchases -> {"none", "new", "pending", "paid", "cancel"}]
    /\ inv \in [Purchases -> {"none", "creating", "active", "paid", "cancelled"}]
    /\ pc \in [Threads -> {"idle", "load", "provGet", "provPut", "mark", "custUpd",
                           "notify", "refFind", "bonusGet", "bonusPut", "refUpd",
                           "bonusMark", "ykLoop", "cpQuery", "cpLoop"}]
    /\ calls \in 0..MaxCalls
    /\ failures \in 0..MaxFailures

\* ------------------------------------------------- claims

Idle == \A t \in Threads : pc[t] = "idle"

\* Two invocations for p ran one after the other, both to completion, and
\* no external call failed.
TwiceInSequence(p) ==
    /\ calls = 2
    /\ failures = 0
    /\ ~overlap
    /\ Idle
    /\ \A q \in Purchases \ {p} : provCalls[q] = 0
    /\ provCalls[p] > 0

\* C1: two ProcessPurchaseById calls in sequence on the same purchase id, with
\* every external call succeeding, make exactly one provisioning call and one
\* customer update, and the second call repeats neither the notification nor
\* the referral cascade.
C1_TwiceProvisionsOnce ==
    \A p \in Purchases :
        TwiceInSequence(p) =>
            /\ provCalls[p] = 1
            /\ custUpdates[p] = 1
            /\ notified[p] = 1

\* C2: when two invocations for the same purchase run concurrently, the
\* buyer's expiry is extended at most once (by month*30 days) for it.
C2_ConcurrentProvisionsOnce ==
    \A p \in Purchases :
        (overlap /\ \A q \in Purchases \ {p} : provCalls[q] = 0) =>
            granted[p] <= month[p] * DaysPerMonth

\* C3: a purchase is Paid only if a provisioning call made while processing it
\* succeeded before, and an invocation reaches MarkAsPaid only with the user
\* its own CreateOrUpdateUser returned.
C3_PaidOnlyAfterProvisioning ==
    /\ \A p \in Purchases : (status[p] = "paid" \/ everPaid[p]) => provCalls[p] >= 1
    /\ \A t \in Threads :
          pc[t] \in {"mark", "custUpd"} => (user[t] # 0 /\ provCalls[pid[t]] >= 1)

C3_Witness ==
    \E p \in Purchases, t \in Threads :
        /\ status[p] = "paid"
        /\ provCalls[p] = 1
        /\ ret[t] = "errProv"
        /\ everPaid[pid[t]] = FALSE

\* C4: an invocation for a polled purchase provisioned and then failed at
\* MarkAsPaid; a later poll tick retried the purchase and has just committed it
\* Paid: the buyer's expiry was extended by month*30 days exactly once.
C4_RetryExtendsOnce ==
    \A p \in Purchases, t \in Threads :
        (/\ ret[t] = "errMark"
         /\ pid[t] = p
         /\ ptype[p] \in PolledTypes
         /\ ~overlap
         /\ \E u \in Threads \ {t} : pid[u] = p /\ pc[u] = "custUpd" /\ role[u] \in {"yk", "cp"})
        => granted[p] = month[p] * DaysPerMonth

\* C5: every status change of a purchase is New->Pending, Pending->Paid or
\* Pending->Cancel, and every purchase row is created as New.
C5_StatusTransitions ==
    [][\A p \in Purchases :
          status'[p] # status[p] =>
              <<status[p], status'[p]>> \in {<<"none", "new">>, <<"new", "pending">>,
                                            <<"pending", "paid">>, <<"pending", "cancel">>}]_vars

\* C6: Paid and Cancel are terminal: a Paid purchase stays Paid, a Cancel
\* purchase stays Cancel and is not provisioned for.
C6_TerminalStatuses ==
    [][\A p \in Purchases :
          /\ status[p] = "paid" => status'[p] = "paid"
          /\ status[p] = "cancel" => (status'[p] = "cancel" /\ provCalls'[p] = provCalls[p])]_vars

\* C7: when ProcessPurchaseById returns an error of steps 1 to 6, the purchase
\* is still Pending.  Stated for the first invocation ever, on a purchase no
\* poll tick has cancelled, so that nothing but this invocation can have
\* changed the status.
C7_ErrorLeavesPending ==
    [][\A t \in Threads :
          (/\ pc[t] \in ProcessPcs
           /\ pid[t] \in Purchases
           /\ ret'[t] \in {"errLoad", "errProv", "errMark", "errCust"}
           /\ calls = 1
           /\ status'[pid[t]] # "cancel")
          => status'[pid[t]] = "pending"]_vars

\* C8: with an un-rewarded referral edge, two concurrent invocations extend
\* the referrer's expiry by the referral-day count in total, with one
\* provisioning call for the referrer.
C8_ConcurrentBonusOnce ==
    (overlap /\ failures = 0 /\ Idle /\ bonus = "granted") =>
        (bonusCalls = 1 /\ bonusDays = ReferralDays)

\* C9: over the referee's purchases, each processed once and one after the
\* other, the referrer is extended by the bonus at most once, also when a step
\* of the cascade fails after the referrer was provisioned.
C9_BonusAtMostOnce ==
    (~overlap /\ \A p \in Purchases : provCalls[p] <= 1) => bonusCalls <= 1

\* C10: the referrer is provisioned and bonus_granted is set only by an
\* invocation whose purchase has been committed Paid.
C10_BonusOnlyAfterPaid ==
    /\ (bonusCalls > 0 \/ bonus = "granted") => \E p \in Purchases : everPaid[p]
    /\ \A t \in Threads :
          pc[t] \in {"refFind", "bonusGet", "bonusPut", "refUpd", "bonusMark"} => everPaid[pid[t]]

C10_Witness ==
    /\ bonus = "granted"
    /\ bonusCalls = 1
    /\ \E p \in Purchases : status[p] = "paid"

\* ------------------------------------------------- claims on the pollers

\* Purchase p is among those the tick of goroutine t still has to visit.
InQueue(t, p) == \E i \in 1..Len(queue[t]) : queue[t][i] = p

\* Where the loop of a tick is after one iteration that called nothing.
LoopAfter(t) == IF Tail(queue[t]) = <<>> THEN "idle" ELSE pc[t]

\* C11: a tick that finds the invoice of a Pending purchase cancelled sets the
\* purchase to Cancel without provisioning, for the YooKassa and the CryptoPay
\* poller, and a tick loads Pending purchases only.
C11_CancelledInvoiceCancelsPurchase ==
    [][\A t \in Threads :
          /\ (/\ pc[t] = "ykLoop"
              /\ queue[t] # <<>>
              /\ queue'[t] # queue[t]
              /\ failures' = failures
              /\ inv[Head(queue[t])] = "cancelled"
              /\ status[Head(queue[t])] = "pending")
             => (status'[Head(queue[t])] = "cancel" /\ provCalls' = provCalls)
          /\ (pc[t] = "cpQuery" /\ pc'[t] # "cpQuery" /\ failures' = failures)
             => \A p \in Purchases :
                   (InQueue(t, p) /\ inv[p] = "cancelled" /\ status[p] = "pending")
                   => (status'[p] = "cancel" /\ provCalls' = provCalls)
          /\ (pc[t] = "idle" /\ pc'[t] \in {"ykLoop", "cpQuery"})
             => \A p \in Purchases : (\E i \in 1..Len(queue'[t]) : queue'[t][i] = p) => status[p] = "pending"]_vars

\* C12: a CryptoPay tick keeps exactly the purchases whose invoice the provider
\* reports paid, calls ProcessPurchaseById once for each of them with its id,
\* continues after each call, and a Pending purchase with an unpaid invoice
\* is neither processed nor changed.  Steps with a fault of the provider
\* (failed call, unparsable payload) are left aside.
C12_BulkTickProcessesPaid ==
    /\ [](\A t \in Threads :
             role[t] = "cp" =>
                 /\ \A i, j \in 1..Len(queue[t]) : i < j => queue[t][i] < queue[t][j]
                 /\ (pc[t] \in ProcessPcs /\ pid[t] \in Purchases)
                    => (ptype[pid[t]] = "crypto" /\ inv[pid[t]] # "active"))
    /\ [][\A t \in Threads :
             /\ (pc[t] = "cpQuery" /\ pc'[t] # "cpQuery" /\ failures' = failures)
                => /\ queue'[t] = SeqOf({p \in Purchases : InQueue(t, p) /\ inv[p] = "paid"})
                   /\ status' = status
                   /\ calls' = calls
             /\ (pc[t] = "cpLoop" /\ pc'[t] # "cpLoop" /\ failures' = failures)
                => /\ pc'[t] = "load"
                   /\ pid'[t] = Head(queue[t])
                   /\ queue'[t] = Tail(queue[t])
                   /\ calls' = calls + 1
                   /\ status' = status
             /\ (role[t] = "cp" /\ pc[t] \in ProcessPcs /\ pc'[t] \notin ProcessPcs)
                => /\ queue'[t] = queue[t]
                   /\ pc'[t] = IF queue[t] = <<>> THEN "idle" ELSE "cpLoop"
             /\ \A p \in Purchases :
                   (ptype[p] = "crypto" /\ status[p] = "pending" /\ inv[p] = "active")
                   => status'[p] = "pending"]_vars

C12_Witness ==
    \E t \in Threads :
        /\ role[t] = "cp"
        /\ pc[t] \in ProcessPcs
        /\ pid[t] = 1
        /\ queue[t] = <<>>
        /\ calls = 1
        /\ ptype[2] = "crypto" /\ status[2] = "pending" /\ inv[2] = "active"

\* C13: no two ticks of the same poller run at the same time.
C13_TicksDoNotOverlap ==
    \A t, u \in Threads :
        (t # u /\ role[t] \in {"yk", "cp"}) => role[u] # role[t]

\* C14: an iteration of a poller in which a fault occurs (a failed status call,
\* an invoice whose metadata cannot be parsed) calls nothing and goes on with
\* the remaining invoices of the tick.
C14_UnparsableMetadataSkipped ==
    [][\A t \in Threads :
          (/\ pc[t] \in {"ykLoop", "cpLoop"}
           /\ queue[t] # <<>>
           /\ pc'[t] # pc[t] \/ queue'[t] # queue[t]
           /\ failures' # failures)
          => /\ calls' = calls
             /\ queue'[t] = Tail(queue[t])
             /\ pc'[t] = LoopAfter(t)]_vars

\* C15: the CryptoPay poller makes its one status call right after loading
\* all Pending CryptoPay purchases, and when that call fails the tick ends
\* with no purchase changed and no ProcessPurchaseById call.
C15_BulkQueryFailureEndsTick ==
    [][\A t \in Threads :
          /\ (pc[t] = "cpQuery" /\ pc'[t] # "cpQuery" /\ failures' # failures)
             => /\ pc'[t] = "idle"
                /\ queue'[t] = <<>>
                /\ status' = status
                /\ calls' = calls
                /\ pid' = pid
          /\ (pc[t] # "cpQuery" /\ pc'[t] = "cpQuery")
             => /\ pc[t] = "idle"
                /\ queue'[t] = SeqOf({p \in Purchases : ptype[p] = "crypto" /\ status[p] = "pending"})]_vars

\* A GetInvoices call has failed (no other call can have: nothing was ever
\* processed and both invoices were created) and a tick is past its query.
C15_Witness ==
    /\ failures = 1
    /\ calls = 0
    /\ \A p \in Purchases : ptype[p] = "crypto" /\ status[p] = "pending"
    /\ \E t \in Threads : pc[t] = "cpLoop" /\ queue[t] = <<1, 2>>

C17_NotifyFailureNotFatal ==
    [][\A t \in Threads :
          (pc[t] = "notify" /\ pc'[t] # "notify" /\ failures' # failures)
          => (pc'[t] = "refFind" /\ ret'[t] = ret[t])]_vars

\* ------------------------------------------------- claims on error paths

\* C21: a purchase becomes Cancel only in the step of a YooKassa tick that
\* visits it while the provider reports its invoice cancelled; no step in
\* which a call fails, and no step of ProcessPurchaseById, sets Cancel.
C21_CancelOnlyOnCancelledInvoice ==
    [][\A p \in Purchases :
          (status'[p] = "cancel" /\ status[p] # "cancel") =>
              /\ inv[p] = "cancelled"
              /\ failures' = failures
              /\ \E t \in Threads :
                    /\ pc[t] = "ykLoop"
                    /\ queue[t] # <<>>
                    /\ Head(queue[t]) = p]_vars

\* A purchase was cancelled and the processing of another one has failed,
\* leaving it Pending.
C21_Witness ==
    \E p \in Purchases, q \in Purchases, t \in Threads :
        /\ p # q
        /\ status[p] = "cancel"
        /\ status[q] = "pending"
        /\ pid[t] = q
        /\ ret[t] \in {"errLoad", "errProv", "errMark"}

\* C23: a ProcessPurchaseById call that finds no purchase row for its id, or
\* whose load of the purchase and its customer fails, returns an error and
\* leaves purchases, invoices, accounts, customer rows, notifications and the
\* referral untouched.
C23_UnknownPurchaseChangesNothing ==
    [][\A t \in Threads :
          (pc[t] = "load" /\ pc'[t] # "load"
             /\ (pid[t] \notin Purchases \/ pc'[t] # "provGet")) =>
              /\ ret'[t] = "errLoad"
              /\ pc'[t] \notin ProcessPcs
              /\ UNCHANGED <<status, ptype, month, inv, panel, custExp, bonus>>
              /\ UNCHANGED <<provCalls, granted, custUpdates, notified, everPaid,
                             bonusCalls, bonusDays>>]_vars

\* A call made with an id no row has has returned its error.
C23_Witness ==
    \E t \in Threads :
        /\ pid[t] \notin Purchases
        /\ ret[t] = "errLoad"
        /\ pc[t] \notin ProcessPcs

\* C24: a purchase leaves New for Pending only in a step that leaves the
\* provider's invoice created; a failed creation leaves the row New.
C24_PendingOnlyWithInvoice ==
    [][\A p \in Purchases :
          /\ (status[p] = "new" /\ status'[p] = "pending") => inv'[p] = "active"
          /\ (status[p] = "new" /\ inv[p] = "creating" /\ inv'[p] = "none") =>
                 status'[p] = "new"]_vars

\* ------------------------------------------------- scheduling

\* The shop with a single purchase, the first row of the table.
NextOne ==
    \/ \E ty \in InvoiceTypes, m \in 1..MaxMonths : CreatePurchaseRow(1, ty, m)
    \/ \E p \in Purchases : CreateInvoiceOk(p)
    \/ \E p \in Purchases : CreateInvoiceFail(p)
    \/ \E p \in Purchases : CreateInvoiceLinkFailed(p)
    \/ \E p \in Purchases : ProviderPay(p)
    \/ \E p \in Purchases : ProviderCancel(p)
    \/ \E t \in Threads, p \in Purchases : PushConfirm(t, p)
    \/ \E t \in Threads : ProcessPurchaseById(t)
    \/ \E t \in Threads, ty \in PolledTypes : TickStart(t, ty)
    \/ \E t \in Threads : YookasaVisit(t)
    \/ \E t \in Threads : CryptoPayQuery(t)
    \/ \E t \in Threads : CryptoPayVisit(t)

\* A call of the remnawave client returns, with a result or with an error.
\* The calls carry the context of the cron job, context.Background(), and the
\* http.Client of NewClient has no Timeout.
PanelAnswers(t) ==
    \/ ProcessProvisionGet(t)
    \/ ProcessProvisionPut(t)
    \/ ProcessBonusGet(t)
    \/ ProcessBonusPut(t)

\* The other steps of a goroutine: the cron starts a tick, the store, the
\* payment provider or the Telegram API answers.
OtherStep(t) ==
    \/ \E ty \in PolledTypes : TickStart(t, ty)
    \/ YookasaVisit(t)
    \/ CryptoPayQuery(t)
    \/ CryptoPayVisit(t)
    \/ ProcessLoad(t)
    \/ ProcessMarkAsPaid(t)
    \/ ProcessUpdateCustomer(t)
    \/ ProcessNotify(t)
    \/ ProcessFindReferral(t)
    \/ ProcessUpdateReferrer(t)
    \/ ProcessMarkBonus(t)

\* The cron keeps firing and every call is answered, except that nothing
\* makes a call of the remnawave client return.
SpecNoDeadline ==
    /\ Init
    /\ [][NextOne]_vars
    /\ \A t \in Threads : WF_vars(OtherStep(t))

\* The cron keeps firing and every call is answered.
SpecLive ==
    /\ Init
    /\ [][NextOne]_vars
    /\ \A t \in Threads : WF_vars(OtherStep(t))
    /\ \A t \in Threads : WF_vars(PanelAnswers(t))

\* C22: every ProcessPurchaseById call, and with it every tick, comes to an
\* end even when a call of the provisioning service is never answered.
C22_CallsTerminate ==
    \A t \in Threads : (pc[t] \in ProcessPcs) ~> (pc[t] \notin ProcessPcs)

\* Goroutine t is inside ProcessPurchaseById for purchase p.
Processing(t, p) == pc[t] \in ProcessPcs /\ pid[t] = p

\* C30: a Pending purchase of a polling provider whose invoice is reported
\* paid becomes Paid, unless the provider stops reporting the invoice paid or
\* the calls counted by MaxCalls are used up and none is running for it.
C30_PaidInvoiceLeadsToPaid ==
    \A p \in Purchases :
        (status[p] = "pending" /\ ptype[p] \in PolledTypes /\ inv[p] = "paid")
            ~> \/ status[p] = "paid"
               \/ inv[p] # "paid"
               \/ (calls = MaxCalls /\ \A t \in Threads : ~Processing(t, p))

\* The call of an earlier tick failed and left the purchase Pending; the call
\* of a later tick has just made it Paid.
C30_Witness ==
    \E p \in Purchases, t \in Threads, u \in Threads :
        /\ status[p] = "paid"
        /\ ptype[p] \in PolledTypes
        /\ inv[p] = "paid"
        /\ ~overlap
        /\ u # t
        /\ pid[u] = p
        /\ pc[u] \notin ProcessPcs
        /\ ret[u] \in {"errLoad", "errProv", "errMark"}
        /\ Processing(t, p)
        /\ pc[t] = "custUpd"
        /\ custUpdates[p] = 0

\* ------------------------------------------------- the shop at rest

\* The shop before any purchase, with one configuration picked; the state in
\* which the specifications below follow a single function or client.
MainAtRest ==
    /\ status = [p \in Purchases |-> "none"]
    /\ ptype = [p \in Purchases |-> "crypto"]
    /\ month = [p \in Purchases |-> 1]
    /\ inv = [p \in Purchases |-> "none"]
    /\ enabled = {"yookasa", "telegram"}
    /\ bonus = "none"
    /\ panel = [c \in Customers |-> 0]
    /\ custExp = [c \in Customers |-> 0]
    /\ pc = [t \in Threads |-> "idle"]
    /\ role = [t \in Threads |-> "none"]
    /\ pid = [t \in Threads |-> 1]
    /\ queue = [t \in Threads |-> <<>>]
    /\ cur = [t \in Threads |-> 0]
    /\ user = [t \in Threads |-> 0]
    /\ ret = [t \in Threads |-> "none"]
    /\ calls = 0
    /\ failures = 0
    /\ provCalls = [p \in Purchases |-> 0]
    /\ granted = [p \in Purchases |-> 0]
    /\ custUpdates = [p \in Purchases |-> 0]
    /\ notified = [p \in Purchases |-> 0]
    /\ everPaid = [p \in Purchases |-> FALSE]
    /\ bonusCalls = 0
    /\ bonusDays = 0
    /\ overlap = FALSE

\* C31: once a purchase is Paid, the buyer's customer row comes to carry the
\* subscription link and expiry of its provisioning call, also when the first
\* UpdateFields fails; left aside are runs in which the calls counted by
\* MaxCalls are used up and none is running for the purchase.
C31_PaidLeadsToCustomerUpdated ==
    \A p \in Purchases :
        (status[p] = "paid")
            ~> \/ custUpdates[p] > 0
               \/ (calls = MaxCalls /\ \A t \in Threads : ~Processing(t, p))

\* Goroutine t sends a CreateUser request in this step: its lookup answered
\* NotFound and the step is not a failure of the transport.
CreateSent(t) ==
    /\ pc[t] = "provPut"
    /\ cur[t] = 0
    /\ pc'[t] # "provPut"
    /\ failures' = failures

\* C34: the buyer has at most one account, and a CreateUser request is made
\* only while the panel holds no account for the telegram id.  (The model
\* keeps one account per telegram id, the panel refusing a second one under
\* the same username; the formula is about the request.)
C34_CreateOnlyWhenAbsent ==
    [][\A t \in Threads : CreateSent(t) => panel[Buyer] = 0]_vars

\* ------------------------------------------------- expiry computation

\* getNewExpire of the older remnawave client (src/unnamed/part_001)
getNewExpireOld(daysToAdd, currentExpire) ==
    IF daysToAdd <= 0
    THEN IF currentExpire + daysToAdd < Now THEN Now + 1 ELSE currentExpire + daysToAdd
    ELSE IF currentExpire < Now \/ currentExpire = 0 THEN Now + daysToAdd
    ELSE currentExpire + daysToAdd

\* The expiries an existing account can carry: the zero time, and dates around now.
ExpireInputs == {0} \cup ((Now - ExpireSpan)..(Now + ExpireSpan))

\* The day counts ProcessPurchaseById asks for, purchase.Month*30, and the
\* zero and negative ones DecreaseSubscription hands to updateUser.
DayInputs ==
    {m * DaysPerMonth : m \in 1..MaxRenewMonths} \cup {0 - d : d \in 0..MaxDecreaseDays}

InitExpire ==
    /\ MainAtRest
    /\ AuthIdle
    /\ BroadcastIdle
    /\ IncomeIdle
    /\ ClientIdle
    /\ StartIdle
    /\ expireAt \in ExpireInputs
    /\ daysIn \in DayInputs
    /\ newExpire = NoValue
    /\ newExpireOld = NoValue

\* ApplyGetNewExpire with the base replaced by the current time.
ApplyGetNewExpireFromNow ==
    /\ newExpire = NoValue
    /\ newExpire' = Now + daysIn
    /\ UNCHANGED <<expireAt, daysIn, newExpireOld, incomeVars, clientVars, startVars, authVars, broadcastVars, shop>>

\* ApplyGetNewExpire with the rule of the older client, which moves the
\* expiry back by a negative day count.
ApplyGetNewExpireSubtracts ==
    /\ newExpire = NoValue
    /\ newExpire' = getNewExpireOld(daysIn, expireAt)
    /\ UNCHANGED <<expireAt, daysIn, newExpireOld, incomeVars, clientVars, startVars, authVars, broadcastVars, shop>>

\* updateUserWithStrategy: newExpire := getNewExpire(days, existingUser.ExpireAt)
ApplyGetNewExpire ==
    /\ newExpire = NoValue
    /\ newExpire' = getNewExpire(daysIn, expireAt)
    /\ UNCHANGED <<expireAt, daysIn, newExpireOld, incomeVars, clientVars, startVars, authVars, broadcastVars, shop>>

\* ApplyGetNewExpireOld with the days added to the stored expiry whatever it is.
ApplyGetNewExpireOldStale ==
    /\ newExpireOld = NoValue
    /\ newExpireOld' = expireAt + daysIn
    /\ UNCHANGED <<expireAt, daysIn, newExpire, incomeVars, clientVars, startVars, authVars, broadcastVars, shop>>

\* ApplyGetNewExpireOld counting a positive day count from the current time
\* even when the account has time left.
ApplyGetNewExpireOldFromNow ==
    /\ newExpireOld = NoValue
    /\ newExpireOld' = IF daysIn > 0 THEN Now + daysIn
                        ELSE getNewExpireOld(daysIn, expireAt)
    /\ UNCHANGED <<expireAt, daysIn, newExpire, incomeVars, clientVars, startVars, authVars, broadcastVars, shop>>

\* The same assignment in the older client.
ApplyGetNewExpireOld ==
    /\ newExpireOld = NoValue
    /\ newExpireOld' = getNewExpireOld(daysIn, expireAt)
    /\ UNCHANGED <<expireAt, daysIn, newExpire, incomeVars, clientVars, startVars, authVars, broadcastVars, shop>>

NextExpire ==
    \/ ApplyGetNewExpire
    \/ ApplyGetNewExpireOld

SpecExpire == InitExpire /\ [][NextExpire]_vars

\* C18: renewal additivity.  For an account whose expiry E is in the future, a
\* purchase of m months (m >= 1) sets the new expiry to E + 30*m days.
C18_RenewalAdditive ==
    \A m \in 1..MaxRenewMonths :
        (newExpire # NoValue /\ expireAt > Now /\ daysIn = 30 * m) =>
            newExpire = expireAt + 30 * m

C18_Witness ==
    /\ expireAt = Now + 10
    /\ daysIn = 30
    /\ newExpire = Now + 40

\* C19: expired reset.  For an account whose expiry is in the past or is the
\* zero time, a purchase of m months sets the new expiry to now + 30*m days,
\* in both clients.
C19_ExpiredReset ==
    \A m \in 1..MaxRenewMonths :
        ((expireAt = 0 \/ expireAt < Now) /\ daysIn = 30 * m) =>
            /\ newExpire # NoValue => newExpire = Now + 30 * m
            /\ newExpireOld # NoValue => newExpireOld = Now + 30 * m

C19_Witness ==
    /\ expireAt = Now - 5
    /\ daysIn = 30
    /\ newExpire = Now + 30
    /\ newExpireOld = Now + 30

\* C29: floor policy of internal/remnawave/client.go.  An update that asks for
\* zero or a negative number of days sets the expiry to now + 1 day whatever
\* the account's expiry was; the days are never subtracted from it.
C29_NonPositiveDaysFloor ==
    (newExpire # NoValue /\ daysIn <= 0) => newExpire = Now + 1

\* DecreaseSubscription by 30 days on an account with 40 days left.
C29_Witness ==
    /\ expireAt = Now + 40
    /\ daysIn = 0 - 30
    /\ newExpire = Now + 1

\* C32: the expiry an update writes is not in the past when the update is
\* made.  The UpdateUser request is sent after getNewExpire has read the
\* clock, less than a day later, so the expiry has to be later than Now.
C32_UpdateNeverExpired ==
    /\ newExpire # NoValue => newExpire > Now
    /\ newExpireOld # NoValue => newExpireOld > Now

\* C33: for a positive day count the two clients compute the same expiry.
C33_VariantsAgreeOnPositiveDays ==
    (newExpire # NoValue /\ newExpireOld # NoValue /\ daysIn > 0) =>
        newExpire = newExpireOld

\* An account that runs out at this very moment is renewed by a month: both
\* clients add to its expiry.
C33_Witness ==
    /\ expireAt = Now
    /\ daysIn = 30
    /\ newExpire = Now + 30
    /\ newExpireOld = Now + 30

\* ------------------------------------------------- remnawave CreateOrUpdateUser

UpperLetters ==
    <<"A", "B", "C", "D", "E", "F", "G", "H", "I", "J", "K", "L", "M",
      "N", "O", "P", "Q", "R", "S", "T", "U", "V", "W", "X", "Y", "Z">>

LowerLetters ==
    <<"a", "b", "c", "d", "e", "f", "g", "h", "i", "j", "k", "l", "m",
      "n", "o", "p", "q", "r", "s", "t", "u", "v", "w", "x", "y", "z">>

DigitChars == <<"0", "1", "2", "3", "4", "5", "6", "7", "8", "9">>

\* strings.ToLower, character by character.
ToLowerChar(c) ==
    IF \E i \in 1..Len(UpperLetters) : UpperLetters[i] = c
    THEN LowerLetters[CHOOSE i \in 1..Len(UpperLetters) : UpperLetters[i] = c]
    ELSE c

ToLower(s) == [i \in 1..Len(s) |-> ToLowerChar(s[i])]

\* The verb %d of fmt.Sprintf.
RECURSIVE FormatDigits(_)
FormatDigits(n) ==
    IF n < 10 THEN <<DigitChars[n + 1]>>
    ELSE FormatDigits(n \div 10) \o <<DigitChars[(n % 10) + 1]>>

FormatDecimal(n) == IF n < 0 THEN <<"-">> \o FormatDigits(0 - n) ELSE FormatDigits(n)

\* generateUsername with the two numbers written one after the other.
generateUsernameNoSeparator(cid, tid) == FormatDecimal(cid) \o FormatDecimal(tid)

\* generateUsername: fmt.Sprintf("%d_%d", customerId, telegramId)
generateUsername(cid, tid) == FormatDecimal(cid) \o <<"_">> \o FormatDecimal(tid)

DayWord == <<"d", "a", "y">>
WeekWord == <<"w", "e", "e", "k">>
MonthWord == <<"m", "o", "n", "t", "h">>
NeverWord == <<"n", "e", "v", "e", "r">>

\* getTrafficLimitStrategy: the enumeration value of CreateUserRequestDto
getTrafficLimitStrategy(s) ==
    LET l == ToLower(s)
    IN  IF l = DayWord THEN "DAY"
        ELSE IF l = WeekWord THEN "WEEK"
        ELSE IF l = MonthWord THEN "MONTH"
        ELSE IF l = NeverWord THEN "MONTH"
        ELSE "MONTH"

\* getUpdateTrafficLimitStrategy comparing the string as it is written.
getUpdateTrafficLimitStrategyCaseSensitive(s) ==
    IF s = DayWord THEN "DAY"
    ELSE IF s = WeekWord THEN "WEEK"
    ELSE IF s = MonthWord THEN "MONTH"
    ELSE IF s = NeverWord THEN "NO_RESET"
    ELSE "MONTH"

\* getUpdateTrafficLimitStrategy: the enumeration value of UpdateUserRequestDto
getUpdateTrafficLimitStrategy(s) ==
    LET l == ToLower(s)
    IN  IF l = DayWord THEN "DAY"
        ELSE IF l = WeekWord THEN "WEEK"
        ELSE IF l = MonthWord THEN "MONTH"
        ELSE IF l = NeverWord THEN "NO_RESET"
        ELSE "MONTH"

\* The word w with the letters at the positions U written in upper case.
Capitalised(w, U) ==
    [i \in 1..Len(w) |->
        IF i \in U
        THEN UpperLetters[CHOOSE k \in 1..Len(LowerLetters) : LowerLetters[k] = w[i]]
        ELSE w[i]]

Spellings(w) == {Capitalised(w, U) : U \in SUBSET (1..Len(w))}

\* Values of TRAFFIC_LIMIT_RESET_STRATEGY: the four words in every mix of
\* upper and lower case, the empty string and some other words.
StrategyInputs ==
    Spellings(DayWord) \cup Spellings(WeekWord) \cup Spellings(MonthWord)
        \cup Spellings(NeverWord)
        \cup {<<>>, <<"y", "e", "a", "r">>, <<"d", "a", "y", "s">>,
              <<"n", "o", "_", "r", "e", "s", "e", "t">>, <<"N", "E", "V", "E", "R", " ">>}

CustomerIds == 1..MaxId
TelegramIds == 1..MaxId

InitClient ==
    /\ MainAtRest
    /\ AuthIdle
    /\ BroadcastIdle
    /\ ExpireIdle
    /\ IncomeIdle
    /\ StartIdle
    /\ caller = "none"
    /\ customerId \in CustomerIds
    /\ telegramId \in TelegramIds
    /\ strategy \in StrategyInputs
    /\ accountExists \in BOOLEAN
    /\ isTrialUser = FALSE
    /\ cpc = "idle"
    /\ reqUsername = <<>>
    /\ reqSquads = "none"
    /\ reqTag = "none"
    /\ reqStrategy = "none"

\* ActivateTrial: remnawaveClient.CreateOrUpdateUser(customer.ID, telegramId,
\* TrialTrafficLimit, TrialDays); CreateOrUpdateUser passes
\* config.TrafficLimitResetStrategy() and isTrialUser = false on.
ActivateTrial ==
    /\ cpc = "idle"
    /\ caller' = "ActivateTrial"
    /\ isTrialUser' = FALSE
    /\ cpc' = "get"
    /\ UNCHANGED <<customerId, telegramId, strategy, accountExists, reqUsername, reqSquads,
                   reqTag, reqStrategy>>
    /\ UNCHANGED <<expireVars, incomeVars, startVars, authVars, broadcastVars, shop>>

\* ProcessPurchaseById: remnawaveClient.CreateOrUpdateUser(customer.ID,
\* customer.TelegramID, TrafficLimit, purchase.Month*30)
ProvisionPurchase ==
    /\ cpc = "idle"
    /\ caller' = "ProcessPurchaseById"
    /\ isTrialUser' = FALSE
    /\ cpc' = "get"
    /\ UNCHANGED <<customerId, telegramId, strategy, accountExists, reqUsername, reqSquads,
                   reqTag, reqStrategy>>
    /\ UNCHANGED <<expireVars, incomeVars, startVars, authVars, broadcastVars, shop>>

\* CreateOrUpdateUserWithStrategyAndTrial: GetUserByTelegramId answers
\* NotFound or a list of accounts.
CreateOrUpdateUserWithStrategyAndTrial ==
    /\ cpc = "get"
    /\ cpc' = IF accountExists THEN "update" ELSE "create"
    /\ UNCHANGED <<caller, customerId, telegramId, strategy, accountExists, isTrialUser,
                   reqUsername, reqSquads, reqTag, reqStrategy>>
    /\ UNCHANGED <<expireVars, incomeVars, startVars, authVars, broadcastVars, shop>>

\* createUserWithStrategy builds the CreateUserRequestDto and sends it.
createUserWithStrategy ==
    /\ cpc = "create"
    /\ reqUsername' = generateUsername(customerId, telegramId)
    /\ reqSquads' = IF isTrialUser THEN "TrialInternalSquads" ELSE "SquadUUIDs"
    /\ reqTag' = IF isTrialUser THEN "TrialRemnawaveTag" ELSE "RemnawaveTag"
    /\ reqStrategy' = getTrafficLimitStrategy(strategy)
    /\ cpc' = "created"
    /\ UNCHANGED <<caller, customerId, telegramId, strategy, accountExists, isTrialUser>>
    /\ UNCHANGED <<expireVars, incomeVars, startVars, authVars, broadcastVars, shop>>

\* updateUserWithStrategy builds the UpdateUserRequestDto and sends it.
updateUserWithStrategy ==
    /\ cpc = "update"
    /\ reqSquads' = IF isTrialUser THEN "TrialInternalSquads" ELSE "SquadUUIDs"
    /\ reqTag' = IF isTrialUser THEN "TrialRemnawaveTag" ELSE "RemnawaveTag"
    /\ reqStrategy' = getUpdateTrafficLimitStrategy(strategy)
    /\ cpc' = "updated"
    /\ UNCHANGED <<caller, customerId, telegramId, strategy, accountExists, isTrialUser,
                   reqUsername>>
    /\ UNCHANGED <<expireVars, incomeVars, startVars, authVars, broadcastVars, shop>>

NextClient ==
    \/ ActivateTrial
    \/ ProvisionPurchase
    \/ CreateOrUpdateUserWithStrategyAndTrial
    \/ createUserWithStrategy
    \/ updateUserWithStrategy

SpecClient == InitClient /\ [][NextClient]_vars

\* C25: a request made for ActivateTrial carries the trial squads and the
\* trial tag, a request made for ProcessPurchaseById the paid ones.
C25_TrialAndPaidSquadsDiffer ==
    (cpc \in {"created", "updated"}) =>
        /\ caller = "ActivateTrial" =>
              (reqSquads = "TrialInternalSquads" /\ reqTag = "TrialRemnawaveTag")
        /\ caller = "ProcessPurchaseById" =>
              (reqSquads = "SquadUUIDs" /\ reqTag = "RemnawaveTag")

\* C26: the name of a created account is the name of its pair (customer id,
\* telegram id) and of no other pair.
C26_UsernameInjective ==
    (cpc = "created") =>
        \A cid \in CustomerIds, tid \in TelegramIds :
            (generateUsername(cid, tid) = reqUsername)
                <=> (cid = customerId /\ tid = telegramId)

\* Customer 1 with telegram id 12; customer 11 with telegram id 2 has the
\* same digits.
C26_Witness ==
    /\ cpc = "created"
    /\ customerId = 1
    /\ telegramId = 12
    /\ reqUsername = <<"1", "_", "1", "2">>

\* s is the word w in some mix of upper and lower case.
IsSpelling(s, w) ==
    /\ Len(s) = Len(w)
    /\ \A i \in 1..Len(w) :
          \/ s[i] = w[i]
          \/ \E k \in 1..Len(LowerLetters) : LowerLetters[k] = w[i] /\ UpperLetters[k] = s[i]

\* C27: whatever the case of its letters, day gives DAY, week WEEK and month
\* MONTH in both requests; never gives MONTH in the create request and
\* NO_RESET in the update request; every other string gives MONTH.
C27_StrategyMapping ==
    (cpc \in {"created", "updated"}) =>
        /\ IsSpelling(strategy, DayWord) => reqStrategy = "DAY"
        /\ IsSpelling(strategy, WeekWord) => reqStrategy = "WEEK"
        /\ IsSpelling(strategy, MonthWord) => reqStrategy = "MONTH"
        /\ IsSpelling(strategy, NeverWord) =>
              reqStrategy = IF cpc = "created" THEN "MONTH" ELSE "NO_RESET"
        /\ (\A w \in {DayWord, WeekWord, MonthWord, NeverWord} : ~IsSpelling(strategy, w)) =>
              reqStrategy = "MONTH"

C27_Witness ==
    /\ cpc = "updated"
    /\ strategy = <<"N", "e", "v", "E", "R">>
    /\ reqStrategy = "NO_RESET"

\* ------------------------------------------------- /start and referrals

StartArgs == {"plain", "ref", "refNotNumber"}

InitStart ==
    /\ MainAtRest
    /\ AuthIdle
    /\ BroadcastIdle
    /\ ExpireIdle
    /\ IncomeIdle
    /\ ClientIdle
    /\ customers \in SUBSET Users
    /\ edges = [u \in Users |-> 0]
    /\ hpc = [h \in Handlers |-> "idle"]
    /\ hChat = [h \in Handlers |-> 1]
    /\ hArg = [h \in Handlers |-> "plain"]
    /\ hNew = [h \in Handlers |-> FALSE]
    /\ starts = 0

\* The handler returns.
StartReturn(h) == hpc' = [hpc EXCEPT ![h] = "idle"]

\* The bot hands a /start message of chat u to StartCommandHandler; the
\* handlers of different updates run at the same time.
StartReceive(h, u, a) ==
    /\ hpc[h] = "idle"
    /\ starts < MaxStarts
    /\ starts' = starts + 1
    /\ hpc' = [hpc EXCEPT ![h] = "find"]
    /\ hChat' = [hChat EXCEPT ![h] = u]
    /\ hArg' = [hArg EXCEPT ![h] = a]
    /\ hNew' = [hNew EXCEPT ![h] = FALSE]
    /\ UNCHANGED <<customers, edges>>
    /\ UNCHANGED <<expireVars, incomeVars, clientVars, authVars, broadcastVars, shop>>

\* customerRepository.FindByTelegramId(chat id): an error ends the handler.
StartFindCustomer(h) ==
    /\ hpc[h] = "find"
    /\ \/ hpc' = [hpc EXCEPT ![h] = IF hChat[h] \in customers THEN "update" ELSE "create"]
       \/ StartReturn(h)
    /\ UNCHANGED <<customers, edges, hChat, hArg, hNew, starts>>
    /\ UNCHANGED <<expireVars, incomeVars, clientVars, authVars, broadcastVars, shop>>

\* customerRepository.Create: the row is inserted, or the call fails; it
\* fails when the telegram id has a row already.  After the insert the text
\* of the message is searched for "ref_".
StartCreateCustomer(h) ==
    /\ hpc[h] = "create"
    /\ \/ /\ hChat[h] \notin customers
          /\ customers' = customers \cup {hChat[h]}
          /\ hNew' = [hNew EXCEPT ![h] = TRUE]
          /\ hpc' = [hpc EXCEPT ![h] = IF hArg[h] = "plain" THEN "greet" ELSE "referral"]
       \/ /\ StartReturn(h)
          /\ UNCHANGED <<customers, hNew>>
    /\ UNCHANGED <<edges, hChat, hArg, starts>>
    /\ UNCHANGED <<expireVars, incomeVars, clientVars, authVars, broadcastVars, shop>>

\* StartUpdateLanguage creating the referral for a customer that exists already.
StartUpdateLanguageAddsReferral(h) ==
    /\ hpc[h] = "update"
    /\ \/ /\ hpc' = [hpc EXCEPT ![h] = "greet"]
          /\ edges' = [edges EXCEPT ![hChat[h]] = IF hArg[h] = "ref" THEN @ + 1 ELSE @]
       \/ /\ StartReturn(h)
          /\ UNCHANGED edges
    /\ UNCHANGED <<customers, hChat, hArg, hNew, starts>>
    /\ UNCHANGED <<expireVars, incomeVars, clientVars, authVars, broadcastVars, shop>>

\* The else branch: UpdateFields(language) of the existing customer.
StartUpdateLanguage(h) ==
    /\ hpc[h] = "update"
    /\ \/ hpc' = [hpc EXCEPT ![h] = "greet"]
       \/ StartReturn(h)
    /\ UNCHANGED <<customers, edges, hChat, hArg, hNew, starts>>
    /\ UNCHANGED <<expireVars, incomeVars, clientVars, authVars, broadcastVars, shop>>

\* The argument starts with ref_: ParseInt (an error ends the handler),
\* FindByTelegramId of the referrer (with an error no row is written) and
\* referralRepository.Create (an error ends the handler).
StartCreateReferral(h) ==
    /\ hpc[h] = "referral"
    /\ \/ /\ hArg[h] = "refNotNumber"
          /\ StartReturn(h)
          /\ UNCHANGED edges
       \/ /\ hArg[h] = "ref"
          /\ hpc' = [hpc EXCEPT ![h] = "greet"]
          /\ UNCHANGED edges
       \/ /\ hArg[h] = "ref"
          /\ hpc' = [hpc EXCEPT ![h] = "greet"]
          /\ edges' = [edges EXCEPT ![hChat[h]] = @ + 1]
       \/ /\ hArg[h] = "ref"
          /\ StartReturn(h)
          /\ UNCHANGED edges
    /\ UNCHANGED <<customers, hChat, hArg, hNew, starts>>
    /\ UNCHANGED <<expireVars, incomeVars, clientVars, authVars, broadcastVars, shop>>

\* The keyboard and the greeting are sent.
StartGreet(h) ==
    /\ hpc[h] = "greet"
    /\ StartReturn(h)
    /\ UNCHANGED <<customers, edges, hChat, hArg, hNew, starts>>
    /\ UNCHANGED <<expireVars, incomeVars, clientVars, authVars, broadcastVars, shop>>

NextStart ==
    \/ \E h \in Handlers, u \in Users, a \in StartArgs : StartReceive(h, u, a)
    \/ \E h \in Handlers : StartFindCustomer(h)
    \/ \E h \in Handlers : StartCreateCustomer(h)
    \/ \E h \in Handlers : StartUpdateLanguage(h)
    \/ \E h \in Handlers : StartCreateReferral(h)
    \/ \E h \in Handlers : StartGreet(h)

SpecStart == InitStart /\ [][NextStart]_vars

IncomeReturn(r) ==
    /\ ipc' = "idle"
    /\ incomeRet' = r

\* What the service can answer to an income request carrying the stored
\* token: 401/403 ("auth") to a token it does not honour, otherwise 200/201
\* ("ok") or another 4xx ("client"); a timeout or 5xx ("retryable") either way.
Responses == IF token = "accepted" THEN {"ok", "retryable", "client"} ELSE {"auth", "retryable"}

\* After NewClient: the start-up Authenticate stored a token or failed, and a
\* stored token may have expired since.
InitIncome ==
    /\ MainAtRest
    /\ AuthIdle
    /\ BroadcastIdle
    /\ ExpireIdle
    /\ ClientIdle
    /\ StartIdle
    /\ token \in {"none", "rejected", "accepted"}
    /\ ipc = "idle"
    /\ attempt = 0
    /\ sends = 0
    /\ reauthCalls = 0
    /\ authPosts = 0
    /\ incomeRet = "none"
    /\ incomeCalls = 0
    /\ lastErr = "none"

\* The service stops honouring the stored token.
TokenExpires ==
    /\ token = "accepted"
    /\ token' = "rejected"
    /\ UNCHANGED <<ipc, attempt, sends, reauthCalls, authPosts, incomeRet, incomeCalls, lastErr, expireVars, clientVars, startVars, authVars, broadcastVars, shop>>

\* A caller invokes CreateIncome.
CreateIncomeStart ==
    /\ ipc = "idle"
    /\ incomeCalls < MaxIncomeCalls
    /\ incomeCalls' = incomeCalls + 1
    /\ ipc' = "ensure"
    /\ attempt' = 0
    /\ sends' = 0
    /\ reauthCalls' = 0
    /\ authPosts' = 0
    /\ incomeRet' = "none"
    /\ lastErr' = "none"
    /\ UNCHANGED <<token, expireVars, clientVars, startVars, authVars, broadcastVars, shop>>

\* ensureAuthenticated: a stored non-empty token is taken as it is, otherwise
\* Authenticate posts the credentials.
EnsureAuthenticated ==
    /\ ipc = "ensure"
    /\ \/ /\ token # "none"
          /\ ipc' = "send"
          /\ UNCHANGED <<token, incomeRet>>
       \/ /\ token = "none"
          /\ token' = "accepted"
          /\ ipc' = "send"
          /\ UNCHANGED incomeRet
       \/ /\ token = "none"
          /\ IncomeReturn("errAuthentication")
          /\ UNCHANGED token
    /\ UNCHANGED <<attempt, sends, reauthCalls, authPosts, incomeCalls, lastErr, expireVars, clientVars, startVars, authVars, broadcastVars, shop>>

\* SendIncomeRequest with a client error retried like a retryable one.
SendIncomeRequestRetriesClient ==
    /\ ipc = "send"
    /\ sends' = sends + 1
    /\ \E r \in Responses :
          /\ lastErr' = r
          /\ \/ /\ r = "ok"
                /\ IncomeReturn("ok")
                /\ UNCHANGED attempt
             \/ /\ r = "auth"
                /\ ipc' = "reauth"
                /\ UNCHANGED <<attempt, incomeRet>>
             \/ /\ r \in {"retryable", "client"}
                /\ attempt < maxRetries - 1
                /\ attempt' = attempt + 1
                /\ UNCHANGED <<ipc, incomeRet>>
             \/ /\ r \in {"retryable", "client"}
                /\ ~(attempt < maxRetries - 1)
                /\ IncomeReturn(IF r = "client" THEN "errClient" ELSE "errRetryable")
                /\ UNCHANGED attempt
    /\ UNCHANGED <<token, reauthCalls, authPosts, incomeCalls, expireVars, clientVars, startVars, authVars, broadcastVars, shop>>

\* One pass of the loop of CreateIncome up to the point where the error of
\* sendIncomeRequest is classified.
SendIncomeRequest ==
    /\ ipc = "send"
    /\ sends' = sends + 1
    /\ \E r \in Responses :
          /\ lastErr' = r
          /\ \/ /\ r = "ok"
                /\ IncomeReturn("ok")
                /\ UNCHANGED attempt
             \/ /\ r = "auth"
                /\ ipc' = "reauth"
                /\ UNCHANGED <<attempt, incomeRet>>
             \/ /\ r = "retryable"
                /\ attempt < maxRetries - 1
                /\ attempt' = attempt + 1
                /\ UNCHANGED <<ipc, incomeRet>>
             \/ /\ r = "retryable"
                /\ ~(attempt < maxRetries - 1)
                /\ IncomeReturn("errRetryable")
                /\ UNCHANGED attempt
             \/ /\ r = "client"
                /\ IncomeReturn("errClient")
                /\ UNCHANGED attempt
    /\ UNCHANGED <<token, reauthCalls, authPosts, incomeCalls, expireVars, clientVars, startVars, authVars, broadcastVars, shop>>

\* The errors.Is(err, ErrAuth) branch: Authenticate, then continue.
\* Authenticate returns nil without a request when a non-empty token is
\* stored, and nothing ever clears the stored token.
Reauthenticate ==
    /\ ipc = "reauth"
    /\ reauthCalls' = reauthCalls + 1
    /\ \/ /\ token # "none"
          /\ UNCHANGED <<token, authPosts>>
          /\ IF attempt + 1 < maxRetries
             THEN ipc' = "send" /\ attempt' = attempt + 1 /\ UNCHANGED incomeRet
             ELSE IncomeReturn("errAttempts") /\ UNCHANGED attempt
       \/ /\ token = "none"
          /\ token' = "accepted"
          /\ authPosts' = authPosts + 1
          /\ IF attempt + 1 < maxRetries
             THEN ipc' = "send" /\ attempt' = attempt + 1 /\ UNCHANGED incomeRet
             ELSE IncomeReturn("errAttempts") /\ UNCHANGED attempt
       \/ /\ token = "none"
          /\ IncomeReturn("errReauthentication")
          /\ UNCHANGED <<token, authPosts, attempt>>
    /\ UNCHANGED <<sends, incomeCalls, lastErr, expireVars, clientVars, startVars, authVars, broadcastVars, shop>>

NextIncome ==
    \/ TokenExpires
    \/ CreateIncomeStart
    \/ EnsureAuthenticated
    \/ SendIncomeRequest
    \/ Reauthenticate

SpecIncome == InitIncome /\ [][NextIncome]_vars

\* C20: a CreateIncome call whose income request was rejected with 401/403
\* made exactly one re-authentication, that re-authentication obtained a new
\* token, and the request was sent exactly once more.  (A call that ended
\* because the re-authentication itself failed is left aside.)
C20_ReauthOnceThenRetryOnce ==
    (ipc = "idle" /\ reauthCalls >= 1 /\ incomeRet # "errReauthentication") =>
        (reauthCalls = 1 /\ authPosts = 1 /\ sends = 2)

\* Every request of the client is answered or given up: the http.Client of
\* NewClient has a Timeout of 30 seconds, and the pause before the second
\* attempt is one second.
SpecIncomeLive ==
    /\ InitIncome
    /\ [][NextIncome]_vars
    /\ WF_vars(EnsureAuthenticated)
    /\ WF_vars(SendIncomeRequest)
    /\ WF_vars(Reauthenticate)

\* C36: a CreateIncome call sends the income request at most maxRetries = 2
\* times and comes to an end; a timeout or 5xx on the first attempt is
\* followed by one more attempt and on the second by the return of the
\* error; a 4xx other than 401/403 ends the call at once.
C36_BoundedRetries ==
    /\ [](sends <= maxRetries)
    /\ [][(sends' = sends + 1 /\ lastErr' = "retryable") =>
              IF attempt = 0
              THEN ipc' = "send" /\ attempt' = 1
              ELSE ipc' = "idle" /\ incomeRet' = "errRetryable"]_vars
    /\ [][(sends' = sends + 1 /\ lastErr' = "client") =>
              (ipc' = "idle" /\ incomeRet' = "errClient" /\ attempt' = attempt)]_vars
    /\ (ipc # "idle") ~> (ipc = "idle")

\* A call whose first attempt timed out and whose second attempt succeeded.
C36_Witness ==
    /\ ipc = "idle"
    /\ incomeRet = "ok"
    /\ lastErr = "ok"
    /\ sends = 2
    /\ attempt = 1
    /\ reauthCalls = 0

\* ------------------------------------------------- moynalog Authenticate

\* After NewClient, with several goroutines about to call Authenticate.
InitAuth ==
    /\ MainAtRest
    /\ BroadcastIdle
    /\ ExpireIdle
    /\ ClientIdle
    /\ StartIdle
    /\ token \in {"none", "rejected", "accepted"}
    /\ ipc = "idle"
    /\ attempt = 0
    /\ sends = 0
    /\ reauthCalls = 0
    /\ authPosts = 0
    /\ incomeRet = "none"
    /\ incomeCalls = 0
    /\ lastErr = "none"
    /\ authMu = 0
    /\ authInFlight = FALSE
    /\ apc = [c \in Callers |-> "idle"]
    /\ aposts = [c \in Callers |-> 0]
    /\ sawSuccess = [c \in Callers |-> FALSE]
    /\ authCalls = 0

\* Goroutine c calls Authenticate (from ensureAuthenticated, from the retry
\* loop of CreateIncome or from NewClient) and arrives at authMu.Lock().
AuthenticateCall(c) ==
    /\ apc[c] = "idle"
    /\ authCalls < MaxAuthCalls
    /\ authCalls' = authCalls + 1
    /\ apc' = [apc EXCEPT ![c] = "lock"]
    /\ aposts' = [aposts EXCEPT ![c] = 0]
    /\ sawSuccess' = [sawSuccess EXCEPT ![c] = FALSE]
    /\ UNCHANGED <<authMu, authInFlight, incomeVars, expireVars, clientVars, startVars,
                   broadcastVars, shop>>

\* Authenticate with the test of the stored token left out: a caller that
\* gets the mutex always posts the credentials.
AuthenticateEnterNoRecheck(c) ==
    /\ apc[c] \in {"lock", "wait"}
    /\ authMu = 0
    /\ IF authInFlight
       THEN /\ apc' = [apc EXCEPT ![c] = "wait"]
            /\ UNCHANGED <<authMu, authInFlight, aposts>>
       ELSE /\ authMu' = c
            /\ authInFlight' = TRUE
            /\ aposts' = [aposts EXCEPT ![c] = @ + 1]
            /\ apc' = [apc EXCEPT ![c] = "request"]
    /\ UNCHANGED <<sawSuccess, authCalls, incomeVars, expireVars, clientVars, startVars,
                   broadcastVars, shop>>

\* Authenticate from the acquisition of authMu (by Lock, or by the Wait of
\* authCond waking up) to the sending of the request: wait while
\* authInFlight, return nil when a non-empty token is stored, otherwise set
\* authInFlight and post the credentials.  The mutex stays held during the
\* request (the Unlock is deferred).
AuthenticateEnter(c) ==
    /\ apc[c] \in {"lock", "wait"}
    /\ authMu = 0
    /\ IF authInFlight
       THEN /\ apc' = [apc EXCEPT ![c] = "wait"]
            /\ UNCHANGED <<authMu, authInFlight, aposts>>
       ELSE IF token # "none"
       THEN /\ apc' = [apc EXCEPT ![c] = "idle"]
            /\ UNCHANGED <<authMu, authInFlight, aposts>>
       ELSE /\ authMu' = c
            /\ authInFlight' = TRUE
            /\ aposts' = [aposts EXCEPT ![c] = @ + 1]
            /\ apc' = [apc EXCEPT ![c] = "request"]
    /\ UNCHANGED <<sawSuccess, authCalls, incomeVars, expireVars, clientVars, startVars,
                   broadcastVars, shop>>

\* The authentication request is answered: 200 with a token, which is
\* stored, or an error (transport, status, body), which is returned.  The
\* deferred calls clear authInFlight, wake the waiters and unlock.
AuthenticateResponse(c) ==
    /\ apc[c] = "request"
    /\ \/ /\ token' = "accepted"
          /\ sawSuccess' = [d \in Callers |->
                               IF apc[d] \in {"lock", "wait"} THEN TRUE ELSE sawSuccess[d]]
       \/ UNCHANGED <<token, sawSuccess>>
    /\ authInFlight' = FALSE
    /\ authMu' = 0
    /\ apc' = [apc EXCEPT ![c] = "idle"]
    /\ UNCHANGED <<aposts, authCalls, ipc, attempt, sends, reauthCalls, authPosts,
                   incomeRet, incomeCalls, lastErr, expireVars, clientVars, startVars,
                   broadcastVars, shop>>

NextAuth ==
    \/ TokenExpires
    \/ \E c \in Callers : AuthenticateCall(c)
    \/ \E c \in Callers : AuthenticateEnter(c)
    \/ \E c \in Callers : AuthenticateResponse(c)

SpecAuth == InitAuth /\ [][NextAuth]_vars

\* C35: at most one authentication request is in flight, and a caller that
\* waited at Authenticate while another caller's request succeeded sends no
\* request of its own.
C35_OneAuthenticationInFlight ==
    /\ Cardinality({c \in Callers : apc[c] = "request"}) <= 1
    /\ \A c \in Callers : sawSuccess[c] => (aposts[c] = 0 /\ apc[c] # "request")

\* A caller that waited for a successful authentication has returned.
C35_Witness ==
    \E c \in Callers, d \in Callers :
        /\ c # d
        /\ sawSuccess[c]
        /\ apc[c] = "idle"
        /\ aposts[c] = 0
        /\ aposts[d] = 1
        /\ token = "accepted"

\* ------------------------------------------------- broadcast handlers

\* BroadcastTypeAll, BroadcastTypeActive, BroadcastTypeInactive
BroadcastTypes == {"all", "active", "inactive"}

\* Only updates of the admin reach the handlers (isAdminMiddleware, the match
\* function of BroadcastMessageHandler), and the maps are keyed by adminID:
\* each map is followed at that one key.
InitBroadcast ==
    /\ MainAtRest
    /\ AuthIdle
    /\ ExpireIdle
    /\ IncomeIdle
    /\ ClientIdle
    /\ StartIdle
    /\ pendingText = 0
    /\ waitingForInput = "absent"
    /\ selectedType = "absent"
    /\ bpc = [w \in Workers |-> "idle"]
    /\ bText = [w \in Workers |-> 0]
    /\ bType = [w \in Workers |-> "absent"]
    /\ texts = 0
    /\ previewType = [x \in Texts |-> "absent"]
    /\ started = [x \in Texts |-> 0]
    /\ audience = [x \in Texts |-> "absent"]
    /\ cancelled = {}

\* BroadcastTypeSelectHandler for one of the three type buttons: one locked
\* section stores the type and sets waitingForInput.
BroadcastTypeSelectHandler(w, ty) ==
    /\ bpc[w] = "idle"
    /\ selectedType' = ty
    /\ waitingForInput' = "true"
    /\ UNCHANGED <<pendingText, bpc, bText, bType, texts, previewType, started, audience,
                   cancelled>>
    /\ UNCHANGED <<expireVars, incomeVars, clientVars, startVars, authVars, shop>>

\* BroadcastMessageHandler, first locked section: a text of the admin that is
\* not a command; the handler returns unless waitingForInput is true and a
\* type is selected, and otherwise keeps the type it read.
BroadcastMessageHandler(w) ==
    /\ bpc[w] = "idle"
    /\ texts < MaxTexts
    /\ texts' = texts + 1
    /\ IF waitingForInput = "true" /\ selectedType # "absent"
       THEN /\ bpc' = [bpc EXCEPT ![w] = "store"]
            /\ bText' = [bText EXCEPT ![w] = texts + 1]
            /\ bType' = [bType EXCEPT ![w] = selectedType]
       ELSE UNCHANGED <<bpc, bText, bType>>
    /\ UNCHANGED <<pendingText, waitingForInput, selectedType, previewType, started,
                   audience, cancelled>>
    /\ UNCHANGED <<expireVars, incomeVars, clientVars, startVars, authVars, shop>>

\* BroadcastMessageHandler, second locked section and the preview: the text
\* is stored, waitingForInput is cleared, and the confirmation message names
\* the audience of the type read in the first section.
BroadcastMessageStore(w) ==
    /\ bpc[w] = "store"
    /\ pendingText' = bText[w]
    /\ waitingForInput' = "false"
    /\ previewType' = [previewType EXCEPT ![bText[w]] = bType[w]]
    /\ bpc' = [bpc EXCEPT ![w] = "idle"]
    /\ UNCHANGED <<selectedType, bText, bType, texts, started, audience, cancelled>>
    /\ UNCHANGED <<expireVars, incomeVars, clientVars, startVars, authVars, shop>>

\* BroadcastConfirmHandler leaving the three entries in the maps.
BroadcastConfirmKeepsText(w) ==
    /\ bpc[w] = "idle"
    /\ pendingText # 0
    /\ selectedType # "absent"
    /\ started' = [started EXCEPT ![pendingText] = @ + 1]
    /\ audience' = [audience EXCEPT ![pendingText] = selectedType]
    /\ UNCHANGED <<pendingText, waitingForInput, selectedType>>
    /\ UNCHANGED <<bpc, bText, bType, texts, previewType, cancelled>>
    /\ UNCHANGED <<expireVars, incomeVars, clientVars, startVars, authVars, shop>>

\* BroadcastConfirmHandler: one locked section reads the pending text and
\* the selected type and deletes the three entries; without a text or a type
\* the callback is answered and nothing else happens.  sendBroadcast is
\* started with the values read.
BroadcastConfirmHandler(w) ==
    /\ bpc[w] = "idle"
    /\ pendingText # 0
    /\ selectedType # "absent"
    /\ started' = [started EXCEPT ![pendingText] = @ + 1]
    /\ audience' = [audience EXCEPT ![pendingText] = selectedType]
    /\ pendingText' = 0
    /\ waitingForInput' = "absent"
    /\ selectedType' = "absent"
    /\ UNCHANGED <<bpc, bText, bType, texts, previewType, cancelled>>
    /\ UNCHANGED <<expireVars, incomeVars, clientVars, startVars, authVars, shop>>

\* BroadcastCancelHandler: one locked section deletes the three entries.
BroadcastCancelHandler(w) ==
    /\ bpc[w] = "idle"
    /\ cancelled' = IF pendingText # 0 THEN cancelled \cup {pendingText} ELSE cancelled
    /\ pendingText' = 0
    /\ waitingForInput' = "absent"
    /\ selectedType' = "absent"
    /\ UNCHANGED <<bpc, bText, bType, texts, previewType, started, audience>>
    /\ UNCHANGED <<expireVars, incomeVars, clientVars, startVars, authVars, shop>>

NextBroadcast ==
    \/ \E w \in Workers, ty \in BroadcastTypes : BroadcastTypeSelectHandler(w, ty)
    \/ \E w \in Workers : BroadcastMessageHandler(w)
    \/ \E w \in Workers : BroadcastMessageStore(w)
    \/ \E w \in Workers : BroadcastConfirmHandler(w)
    \/ \E w \in Workers : BroadcastCancelHandler(w)

SpecBroadcast == InitBroadcast /\ [][NextBroadcast]_vars

\* C37: a broadcast is started only by a step that finds the text pending
\* and removes it, so each text starts at most one broadcast however many
\* confirm callbacks are handled; a text that was pending when a cancel
\* callback was handled starts none.
C37_OneBroadcastPerText ==
    /\ [](\A x \in Texts : started[x] <= 1)
    /\ [](\A x \in cancelled : started[x] = 0)
    /\ [][\A x \in Texts :
             started'[x] # started[x] => (pendingText = x /\ pendingText' = 0)]_vars

\* One text was confirmed and its broadcast started, another was cancelled.
C37_Witness ==
    \E x \in Texts, y \in Texts :
        /\ started[x] = 1
        /\ y \in cancelled
        /\ started[y] = 0
        /\ pendingText = 0

\* C38: a broadcast goes to the audience named in the confirmation preview
\* of its text.
C38_AudienceIsPreviewedType ==
    \A x \in Texts : started[x] > 0 => audience[x] = previewType[x]

====
